---- MODULE Spec2Model ----
(***************************************************************************)
(* Verification model of the lzrs LZ77 compressor.                         *)
(*                                                                         *)
(*   - Compressor (src/src/writer.rs): hash-chain match finder and token   *)
(*     emitter over a Vec-backed ring.                                     *)
(*   - Dictionary (src/lzrs2/src/dict.rs): ring with mirrored tail and     *)
(*     split dictionary / lookahead regions.                               *)
(*   - RingBuf (src/lzrs2/src/buffer/ringbuf.rs): ring addressed by the    *)
(*     position of a byte in the stream written to it.                     *)
(*   - buffer::raw (src/lzrs2/src/buffer/raw.rs, u8.rs): 64-bit reads and  *)
(*     writes and the prefix comparison of byte strings.                   *)
(*   - StepLayer (src/lzrs/src/trace/step.rs, app/run.rs): span entries    *)
(*     of worker threads gated by step signals from the UI loop.           *)
(*   - debug::step (src/src/debug/step.rs): the global step receiver       *)
(*     behind the STEP lock.                                               *)
(*                                                                         *)
(* Vectors and slices are sequences; At(s, i) is the 0-based s[i] of the   *)
(* source.  Boxed buffers are functions over 0..len-1.  An Option is a     *)
(* sequence of length 0 (None) or 1 (Some).                                *)
(***************************************************************************)
EXTENDS Integers, Sequences, FiniteSets, TLC

\* ------------------------------------------------------------------ bounds
\* Longest input stream handed to the Compressor.
MaxInput == 5
\* Compressor dictionary sizes are 1..MaxDictSize (Config::dict_size).
MaxDictSize == 3

\* The byte values used.  The code only copies bytes, compares them for
\* equality and indexes map by them, so two values show every case.
Bytes == {0, 1}

\* ----------------------------------------------------------------- helpers
At(s, i) == s[i + 1]

Min(a, b) == IF a < b THEN a ELSE b

\* All sequences over S of length lo..hi.
SeqsOf(S, lo, hi) == UNION {[1..n -> S] : n \in lo..hi}

\* s[from..] of the source (0-based, to the end).
SliceFrom(s, from) == SubSeq(s, from + 1, Len(s))

\* s[..to] of the source (0-based, exclusive end).
SliceTo(s, to) == SubSeq(s, 1, to)

None == <<>>
Some(x) == <<x>>

\* ------------------------------------------------------------ Compressor
\* std::u32::MAX, the "no entry" value of map and chain.  The model uses the
\* largest integer TLC represents; like the original it exceeds every slot
\* index a dictionary can have.
U32_MAX == 2147483647

\* Result of an index expression that is out of bounds.
PANIC == -1

VARIABLES
    comp,       \* the Compressor struct: dict_size, inner, write_buf, dict,
                \* head, map, chain
    input,      \* the byte stream X the caller compresses
    consumed,   \* number of bytes of input accepted by write so far
    tokens,     \* tokens handed to write_token, in order
    c_ret,      \* <<|buf|, returned count>> of the last completed write
    c_status,   \* "running" | "done" | "panicked" | "hung"
    c_op        \* name of the last Compressor operation called

cvars == <<comp, input, consumed, tokens, c_ret, c_status, c_op>>

Literal(b) == [type |-> "Literal", byte |-> b]
Rep(d, l) == [type |-> "Rep", distance |-> d, length |-> l]

\* Compressor::new.  The sink it writes to is held as what it has received:
\* the bytes written to it and the number of times it was told to flush.
CompressorNew(dict_size) ==
    [dict_size |-> dict_size,
     inner |-> [data |-> <<>>, flushed |-> 0],
     write_buf |-> <<>>,
     dict |-> <<>>,
     head |-> 0,
     map |-> [b \in Bytes |-> U32_MAX],
     chain |-> <<>>]

\* distance that counts the last item added as 1.
distance_from_one(self, index) ==
    IF self.head > index
    THEN self.head - index
    ELSE self.dict_size - index + self.head

\* Compressor::distance
distance(self, index) ==
    IF self.head > index
    THEN self.head - index - 1
    ELSE self.dict_size - index + self.head - 1

RECURSIVE match_len_loop(_, _, _, _)
match_len_loop(self, at, lookahead, len) ==
    LET over_len == distance(self, at) + 1
        idx == (at + (len % over_len)) % self.dict_size
    IN  IF idx >= Len(self.dict) \/ len >= Len(lookahead)
        THEN PANIC
        ELSE IF At(self.dict, idx) = At(lookahead, len)
             THEN match_len_loop(self, at, lookahead, len + 1)
             ELSE len

\* Compressor::match_len; PANIC when an index leaves its slice.
match_len(self, at, lookahead) == match_len_loop(self, at, lookahead, 0)

\* next_match_index that does not compare the slot's byte with lookahead[0].
next_match_index_any_byte(self, last, lookahead) ==
    LET index == IF last # None
                 THEN At(self.chain, last[1])
                 ELSE self.map[At(lookahead, 0)]
    IN  IF index < Len(self.dict)
        THEN Some(index)
        ELSE None

\* Compressor::next_match_index
next_match_index(self, last, lookahead) ==
    LET index == IF last # None
                 THEN At(self.chain, last[1])
                 ELSE self.map[At(lookahead, 0)]
    IN  IF index < Len(self.dict) /\ At(self.dict, index) = At(lookahead, 0)
        THEN Some(index)
        ELSE None

\* The while-let loop of next_token.  The slots already visited are
\* carried along: the next slot depends on the last one only, so reaching
\* a visited slot means the loop never exits.
RECURSIVE next_token_loop(_, _, _, _, _)
next_token_loop(self, lookahead, best_match, last, visited) ==
    LET m == next_match_index(self, last, lookahead)
    IN  IF m = None
        THEN [status |-> "ok", best_match |-> best_match]
        ELSE IF m[1] \in visited
        THEN [status |-> "hung", best_match |-> best_match]
        ELSE LET len == match_len(self, m[1], lookahead)
             IN  IF len = PANIC
                 THEN [status |-> "panicked", best_match |-> best_match]
                 ELSE next_token_loop(self, lookahead,
                          IF len > best_match[1]
                          THEN <<len, Some(m[1])>>
                          ELSE best_match,
                          m, visited \cup {m[1]})

\* Compressor::next_token: status, consumed count and token.
next_token(self, lookahead) ==
    LET r == next_token_loop(self, lookahead, <<0, None>>, None, {})
        len == r.best_match[1]
        index == r.best_match[2]
    IN  IF r.status # "ok"
        THEN [status |-> r.status, consumed |-> 0, tok |-> Literal(0)]
        ELSE IF index # None
        THEN [status |-> "ok", consumed |-> len,
              tok |-> Rep(distance(self, index[1]), len)]
        ELSE [status |-> "ok", consumed |-> 1,
              tok |-> Literal(At(lookahead, 0))]

\* Compressor::write_to_dictionary
RECURSIVE write_to_dictionary(_, _)
write_to_dictionary(self, bytes) ==
    IF bytes = <<>>
    THEN self
    ELSE LET b == Head(bytes)
             first_match == self.map[b]
             full == ~(Len(self.dict) < self.dict_size)
             next == [self EXCEPT
                        !.map[b] = self.head,
                        !.dict = IF full
                                 THEN [self.dict EXCEPT ![self.head + 1] = b]
                                 ELSE Append(self.dict, b),
                        !.chain = IF full
                                  THEN [self.chain EXCEPT ![self.head + 1] = first_match]
                                  ELSE Append(self.chain, first_match),
                        !.head = (self.head + 1) % self.dict_size]
         IN  write_to_dictionary(next, Tail(bytes))

\* Token stream semantics: Literal appends its byte; Rep appends, for each
\* i in 0..length-1, the byte at output_len - distance - 1 + i of the
\* output built so far (output_len taken when the token starts).
RECURSIVE ReplayRep(_, _, _)
ReplayRep(out, from, n) ==
    IF n = 0 THEN out
    ELSE ReplayRep(Append(out, out[from]), from + 1, n - 1)

RECURSIVE Replay(_, _)
Replay(out, toks) ==
    IF toks = <<>> THEN out
    ELSE LET t == Head(toks)
         IN  Replay(IF t.type = "Literal"
                    THEN Append(out, t.byte)
                    ELSE ReplayRep(out, Len(out) - t.distance, t.length),
                    Tail(toks))

\* Number of input bytes a token covers.
TokenLen(t) == IF t.type = "Literal" THEN 1 ELSE t.length

RECURSIVE SumTokenLen(_)
SumTokenLen(toks) ==
    IF toks = <<>> THEN 0 ELSE TokenLen(Head(toks)) + SumTokenLen(Tail(toks))

\* <Compressor as Write>::flush: self.inner.write_all(&self.write_buf), the
\* sink receives the bytes of write_buf.
flush(self) ==
    [self EXCEPT !.inner.data = self.inner.data \o self.write_buf]

CompressorInit ==
    /\ \E ds \in 1..MaxDictSize : comp = CompressorNew(ds)
    /\ input \in SeqsOf(Bytes, 1, MaxInput)
    /\ consumed = 0
    /\ tokens = <<>>
    /\ c_ret = <<0, 0>>
    /\ c_status = "running"
    /\ c_op = "new"

\* write that emits the token without inserting its bytes into the
\* dictionary.
CompressorWrite_without_insert ==
    /\ c_status = "running"
    /\ consumed < Len(input)
    /\ \E k \in 1..(Len(input) - consumed) :
         LET buf == SubSeq(input, consumed + 1, consumed + k)
             r == next_token(comp, buf)
         IN  IF r.status = "ok" /\ r.consumed <= Len(buf)
             THEN /\ comp' = comp
                  /\ tokens' = Append(tokens, r.tok)
                  /\ consumed' = consumed + r.consumed
                  /\ c_ret' = <<Len(buf), r.consumed>>
                  /\ c_status' = "running"
             ELSE /\ c_status' = IF r.status = "ok" THEN "panicked" ELSE r.status
                  /\ UNCHANGED <<comp, tokens, consumed, c_ret>>
    /\ c_op' = "write"
    /\ UNCHANGED input

\* <Compressor as Write>::write on a non-empty buffer taken from the
\* unconsumed input: the whole remainder (k = all that is left, as
\* write_all does) or a shorter chunk of it.
CompressorWrite ==
    /\ c_status = "running"
    /\ consumed < Len(input)
    /\ \E k \in 1..(Len(input) - consumed) :
         LET buf == SubSeq(input, consumed + 1, consumed + k)
             r == next_token(comp, buf)
         IN  IF r.status = "ok" /\ r.consumed <= Len(buf)
             THEN /\ comp' = write_to_dictionary(comp, SliceTo(buf, r.consumed))
                  /\ tokens' = Append(tokens, r.tok)
                  /\ consumed' = consumed + r.consumed
                  /\ c_ret' = <<Len(buf), r.consumed>>
                  /\ c_status' = "running"
             ELSE /\ c_status' = IF r.status = "ok" THEN "panicked" ELSE r.status
                  /\ UNCHANGED <<comp, tokens, consumed, c_ret>>
    /\ c_op' = "write"
    /\ UNCHANGED input

\* <Compressor as Write>::flush, called between writes.
CompressorFlush ==
    /\ c_status = "running"
    /\ comp' = flush(comp)
    /\ c_op' = "flush"
    /\ UNCHANGED <<input, consumed, tokens, c_ret, c_status>>

\* Compressor::finish once the whole input has been accepted.
CompressorFinish ==
    /\ c_status = "running"
    /\ consumed = Len(input)
    /\ comp' = flush(comp)
    /\ c_status' = "done"
    /\ c_op' = "finish"
    /\ UNCHANGED <<input, consumed, tokens, c_ret>>

\* ------------------------------------------------------------ Dictionary
\* Lookahead capacities are 1..MaxLaCap, at most the dictionary capacity.
MaxLaCap == 2
\* Longest byte string passed to add_to_lookahead / add_to_dictionary.
MaxArgLen == 2
\* Largest length passed to load_match_into_lookahead and to commit.
MaxCopyLen == 2
\* Largest length passed to load_match_into_dictionary, which takes lengths
\* beyond the lookahead capacity.
MaxMatchLen == 3
\* Bytes committed to the history over one run.
MaxCommitted == 4

\* Largest dict_cap and la_cap passed to Dictionary::new when the
\* construction itself is examined.
MaxNewCap == 4

\* The model's usize has 30 bits: wrapping_sub wraps modulo this.
UsizeMod == 1073741824

VARIABLES
    dct,        \* the Dictionary struct: dict_cap, la_cap, buf, head, dict_size, la_size
    written,    \* physical indices of buf stored to since construction
    hist,       \* every byte committed to the history so far, oldest first
    staged,     \* bytes staged in the lookahead and not yet committed
    d_op,       \* name of the last public operation called
    d_arg,      \* its arguments, as a sequence (a byte string is its own sequence)
    d_ret,      \* its return value: the returned slice, <<n>> for a count
    d_status    \* "ok" | "panicked"

dvars == <<dct, written, hist, staged, d_op, d_arg, d_ret, d_status>>

VARIABLES
    rb,         \* the RingBuf struct: buf, head, len, n
    rb_stream,  \* every byte written to the ring so far, oldest first
    rb_op,      \* name of the last RingBuf operation called
    rb_arg,     \* its argument: <<capacity>>, or the bytes written
    rb_ret      \* its return value, <<count>> for a write

rvars == <<rb, rb_stream, rb_op, rb_arg, rb_ret>>

VARIABLES
    raw_buf,    \* the byte buffer write_u64 and read_u64 work on
    raw_op,     \* name of the last function of buffer::raw called
    raw_arg,    \* its arguments: <<lhs, rhs>>, <<index>> or <<index, src>>
    raw_ret,    \* its return value; PanicSlice when it panicked
    raw_reach   \* one past the highest index the last call read in a slice

uvars == <<raw_buf, raw_op, raw_arg, raw_ret, raw_reach>>

VARIABLES
    sl_queue,    \* step signals sent on the channel and not yet received
    sl_tx,       \* the Sender the UI loop holds: "held" | "dropped"
    sl_rx,       \* holder of the Mutex around the Receiver: 0 when free
    sl_poisoned, \* whether that Mutex is poisoned
    sl_pc,       \* each worker's position: "run" | "lock" | "recv" | "panicked"
    sl_sent,     \* number of signals the UI loop has sent
    sl_released  \* number of span entries that have returned from on_enter

svars == <<sl_queue, sl_tx, sl_rx, sl_poisoned, sl_pc, sl_sent, sl_released>>

VARIABLES
    STEP,        \* the global Option<Receiver<()>>: "None" | "Some"
    step_lock,   \* holder of the Mutex STEP: 0 when free
    step_poisoned, \* whether that Mutex is poisoned
    step_queue,  \* signals queued on the channel of the receiver in STEP
    step_tx,     \* the Sender of that channel: "held" | "dropped"
    step_pc      \* each thread's position: "idle" | "step_lock" | "step_recv" |
                 \* "set_lock" | "free_lock" | "panicked"

gvars == <<STEP, step_lock, step_poisoned, step_queue, step_tx, step_pc>>

vars == <<comp, input, consumed, tokens, c_ret, c_status, c_op,
          dct, written, hist, staged, d_op, d_arg, d_ret, d_status,
          rb, rb_stream, rb_op, rb_arg, rb_ret,
          raw_buf, raw_op, raw_arg, raw_ret, raw_reach,
          sl_queue, sl_tx, sl_rx, sl_poisoned, sl_pc, sl_sent, sl_released,
          STEP, step_lock, step_poisoned, step_queue, step_tx, step_pc>>

RECURSIVE BitAnd(_, _)
BitAnd(a, b) ==
    IF a = 0 \/ b = 0 THEN 0
    ELSE (a % 2) * (b % 2) + 2 * BitAnd(a \div 2, b \div 2)

\* usize::wrapping_sub
wrapping_sub(a, b) == (a - b) % UsizeMod

\* Dictionary::new; buf is allocated with set_len and not initialised, so
\* its contents are whatever bytes (garbage) the allocation holds.
DictionaryNew(dict_cap, la_cap, garbage) ==
    [dict_cap |-> dict_cap,
     la_cap |-> la_cap,
     buf |-> garbage,
     dict_size |-> 0,
     head |-> 0,
     la_size |-> 0]

\* The assertion of Dictionary::new. With dict_cap = 0 the subtraction
\* overflows: a build with overflow checks panics there, one without wraps
\* and fails the assertion on dict_cap != 0; the call panics in both.
new_assert(dict_cap) ==
    BitAnd(wrapping_sub(dict_cap, 1), dict_cap) = 0 /\ dict_cap # 0

\* Dictionary::wrap
wrap(self, index) == BitAnd(index, self.dict_cap - 1)

\* Dictionary::wrap_sub
wrap_sub(self, index, value) == wrap(self, wrapping_sub(index, value))

\* The operations below work on m = [self, written, panic]: the struct, the
\* set of buffer cells stored to, and whether an index or assertion failed.

\* self.buf[i] = c
Store(m, i, c) ==
    IF m.panic THEN m
    ELSE IF i \notin DOMAIN m.self.buf
    THEN [m EXCEPT !.panic = TRUE]
    ELSE [m EXCEPT !.self.buf[i] = c, !.written = @ \cup {i}]

\* Result of a slice expression that is out of bounds.
PanicSlice == <<PANIC>>

\* &buf[a..b]; PanicSlice when the range is out of bounds.
Slice(buf, a, b) ==
    IF a > b \/ b > Cardinality(DOMAIN buf)
    THEN PanicSlice
    ELSE [i \in 1..(b - a) |-> buf[a + i - 1]]

\* Dictionary::wrapped_copy
RECURSIVE wrapped_copy(_, _, _, _)
wrapped_copy(m, buf, pos, len) ==
    IF len = 0 \/ m.panic THEN m
    ELSE LET c == Head(buf)
             m1 == Store(m, pos, c)
             m2 == IF pos < m.self.la_cap
                   THEN Store(m1, pos + m.self.dict_cap, c)
                   ELSE m1
         IN  wrapped_copy(m2, Tail(buf), wrap(m.self, pos + 1), len - 1)

\* Dictionary::wrapped_copy_self
RECURSIVE wrapped_copy_self(_, _, _, _)
wrapped_copy_self(m, from, pos, len) ==
    IF len = 0 \/ m.panic THEN m
    ELSE LET c == m.self.buf[from]
             m1 == Store(m, pos, c)
             m2 == IF pos < m.self.la_cap
                   THEN Store(m1, pos + m.self.dict_cap, c)
                   ELSE m1
         IN  wrapped_copy_self(m2, wrap(m.self, from + 1),
                               wrap(m.self, pos + 1), len - 1)

\* The bytes c that the loop of wrapped_copy_self reads and stores, in order.
RECURSIVE copied(_, _, _, _)
copied(m, from, pos, len) ==
    IF len = 0 \/ m.panic THEN <<>>
    ELSE <<m.self.buf[from]>> \o
         copied(wrapped_copy_self(m, from, pos, 1), wrap(m.self, from + 1),
                wrap(m.self, pos + 1), len - 1)

\* clear_lookahead that also forgets the dictionary.
clear_lookahead_and_dictionary(m) ==
    [m EXCEPT !.self.la_size = 0, !.self.dict_size = 0]

\* Dictionary::clear_lookahead
clear_lookahead(m) == [m EXCEPT !.self.la_size = 0]

\* Dictionary::add_to_lookahead
add_to_lookahead(m, buf) ==
    LET self == m.self
        len == Min(Len(buf), self.la_cap - self.la_size)
        m1 == wrapped_copy(m, buf, self.head + self.la_size, len)
        la == self.la_size + len
        m2 == [m1 EXCEPT !.self.la_size = la,
                         !.self.dict_size = Min(self.dict_size, self.dict_cap - la)]
    IN  IF self.la_cap < self.la_size \/ self.dict_cap < la
        THEN [m |-> [m1 EXCEPT !.panic = TRUE], ret |-> PANIC]
        ELSE [m |-> m2, ret |-> len]

\* add_to_dictionary that does not clear the lookahead first.
add_to_dictionary_keeps_lookahead(m, buf) ==
    LET m0 == m
        m1 == wrapped_copy(m0, buf, m0.self.head, Len(buf))
    IN  [m |-> [m1 EXCEPT
                  !.self.dict_size = Min(m0.self.dict_size + Len(buf), m0.self.dict_cap),
                  !.self.head = wrap(m0.self, m0.self.head + Len(buf))],
         ret |-> <<>>]

\* Dictionary::add_to_dictionary
add_to_dictionary(m, buf) ==
    LET m0 == clear_lookahead(m)
        m1 == wrapped_copy(m0, buf, m0.self.head, Len(buf))
    IN  [m |-> [m1 EXCEPT
                  !.self.dict_size = Min(m0.self.dict_size + Len(buf), m0.self.dict_cap),
                  !.self.head = wrap(m0.self, m0.self.head + Len(buf))],
         ret |-> <<>>]

\* commit_lookahead_bytes that forgets to advance head.
commit_lookahead_bytes_keeps_head(m, n) ==
    LET self == m.self
        bytes == Slice(self.buf, self.head, self.head + n)
    IN  IF ~(n <= self.la_size) \/ bytes = PanicSlice
        THEN [m |-> [m EXCEPT !.panic = TRUE], ret |-> PanicSlice]
        ELSE [m |-> [m EXCEPT !.self.dict_size = self.dict_size + n,
                              !.self.la_size = self.la_size - n],
              ret |-> bytes]

\* Dictionary::commit_lookahead_bytes
commit_lookahead_bytes(m, n) ==
    LET self == m.self
        bytes == Slice(self.buf, self.head, self.head + n)
    IN  IF ~(n <= self.la_size) \/ bytes = PanicSlice
        THEN [m |-> [m EXCEPT !.panic = TRUE], ret |-> PanicSlice]
        ELSE [m |-> [m EXCEPT !.self.head = wrap(self, self.head + n),
                              !.self.dict_size = self.dict_size + n,
                              !.self.la_size = self.la_size - n],
              ret |-> bytes]

\* Dictionary::dictionary; PanicSlice when a range is out of bounds.
dictionary(self) ==
    LET tail == wrap_sub(self, self.head, self.dict_size)
    IN  IF tail > self.head
        THEN <<Slice(self.buf, tail, self.dict_cap), Slice(self.buf, 0, self.head)>>
        ELSE <<Slice(self.buf, tail, self.head), <<>>>>

\* Dictionary::lookahead
lookahead(self) == Slice(self.buf, self.head, self.head + self.la_size)

\* u64::from_le_bytes.  A u64 is held as four 16-bit limbs, least
\* significant first (the model's integers have 32 bits): the value is
\* v[1] + 2^16 * v[2] + 2^32 * v[3] + 2^48 * v[4].
from_le_bytes(bytes) ==
    <<bytes[1] + 256 * bytes[2], bytes[3] + 256 * bytes[4],
      bytes[5] + 256 * bytes[6], bytes[7] + 256 * bytes[8]>>

\* Dictionary::read_unaligned_u64; PanicSlice when pos..pos+8 is out of bounds.
read_unaligned_u64(self, pos) ==
    LET bytes == Slice(self.buf, pos, pos + 8)
    IN  IF bytes = PanicSlice THEN PanicSlice ELSE from_le_bytes(bytes)

\* Dictionary::match_length, the loop matching 8 bytes at a time.
RECURSIVE match_length_chunks(_, _, _, _)
match_length_chunks(self, pos, len, max_len) ==
    IF max_len - len >= 8
    THEN LET dict_val == read_unaligned_u64(self, pos + len)
             la_val == read_unaligned_u64(self, self.head + len)
         IN  IF dict_val = PanicSlice \/ la_val = PanicSlice THEN PANIC
             ELSE IF dict_val = la_val
             THEN match_length_chunks(self, pos, len + 8, max_len)
             ELSE len
    ELSE len

\* Dictionary::match_length, the loop matching one byte at a time.
RECURSIVE match_length_bytes(_, _, _, _)
match_length_bytes(self, pos, len, max_len) ==
    IF len = PANIC THEN PANIC
    ELSE IF len < max_len
    THEN IF (pos + len) \notin DOMAIN self.buf \/ (self.head + len) \notin DOMAIN self.buf
         THEN PANIC
         ELSE IF self.buf[pos + len] = self.buf[self.head + len]
         THEN match_length_bytes(self, pos, len + 1, max_len)
         ELSE len
    ELSE len

\* match_length whose assertion lets distance == dict_size through.
match_length_weak_assert(self, dist) ==
    IF ~(dist <= self.dict_size) THEN PANIC
    ELSE IF self.la_size = 0 THEN 0
    ELSE LET pos == wrap_sub(self, self.head, dist + 1)
             max_len == self.la_size
         IN  match_length_bytes(self, pos,
                                match_length_chunks(self, pos, 0, max_len), max_len)

\* Dictionary::match_length; PANIC when the assertion or an index fails.
match_length(self, dist) ==
    IF ~(dist < self.dict_size) THEN PANIC
    ELSE IF self.la_size = 0 THEN 0
    ELSE LET pos == wrap_sub(self, self.head, dist + 1)
             max_len == self.la_size
         IN  match_length_bytes(self, pos,
                                match_length_chunks(self, pos, 0, max_len), max_len)

\* load_match_into_lookahead that checks its preconditions after the copy.
load_match_into_lookahead_late_assert(m, dist, length) ==
    LET self == m.self
        pos == wrap_sub(self, self.head, dist + 1)
        m1 == wrapped_copy_self(m, pos, self.head + self.la_size, length)
        m2 == [m1 EXCEPT !.self.la_size = self.la_size + length]
        bytes == Slice(m2.self.buf, pos, pos + length)
    IN  IF ~(dist < self.dict_size) \/ ~(length + self.la_size <= self.la_cap)
        THEN [m |-> [m2 EXCEPT !.panic = TRUE], ret |-> PanicSlice]
        ELSE IF m2.panic \/ bytes = PanicSlice
        THEN [m |-> [m2 EXCEPT !.panic = TRUE], ret |-> PanicSlice]
        ELSE [m |-> m2, ret |-> bytes]

\* Dictionary::load_match_into_lookahead
load_match_into_lookahead(m, dist, length) ==
    LET self == m.self
        pos == wrap_sub(self, self.head, dist + 1)
        m1 == wrapped_copy_self(m, pos, self.head + self.la_size, length)
        m2 == [m1 EXCEPT !.self.la_size = self.la_size + length]
        bytes == Slice(m2.self.buf, pos, pos + length)
    IN  IF ~(dist < self.dict_size) \/ ~(length + self.la_size <= self.la_cap)
        THEN [m |-> [m EXCEPT !.panic = TRUE], ret |-> PanicSlice]
        ELSE IF m2.panic \/ bytes = PanicSlice
        THEN [m |-> [m2 EXCEPT !.panic = TRUE], ret |-> PanicSlice]
        ELSE [m |-> m2, ret |-> bytes]

\* load_match_into_dictionary that counts the match without copying it.
load_match_into_dictionary_without_copy(m, dist, length) ==
    LET self == m.self
        pos == wrap_sub(self, self.head, dist + 1)
        m2 == [clear_lookahead(m) EXCEPT
                  !.self.dict_size = Min(self.dict_size + length, self.dict_cap),
                  !.self.head = wrap(self, self.head + length)]
        bytes == Slice(m2.self.buf, pos, pos + length)
    IN  IF ~(dist < self.dict_size)
        THEN [m |-> [m EXCEPT !.panic = TRUE], ret |-> PanicSlice]
        ELSE IF m2.panic \/ bytes = PanicSlice
        THEN [m |-> [m2 EXCEPT !.panic = TRUE], ret |-> PanicSlice]
        ELSE [m |-> m2, ret |-> bytes]

\* Dictionary::load_match_into_dictionary
load_match_into_dictionary(m, dist, length) ==
    LET self == m.self
        pos == wrap_sub(self, self.head, dist + 1)
        m1 == wrapped_copy_self(m, pos, self.head, length)
        m2 == [clear_lookahead(m1) EXCEPT
                  !.self.dict_size = Min(self.dict_size + length, self.dict_cap),
                  !.self.head = wrap(self, self.head + length)]
        bytes == Slice(m2.self.buf, pos, pos + length)
    IN  IF ~(dist < self.dict_size)
        THEN [m |-> [m EXCEPT !.panic = TRUE], ret |-> PanicSlice]
        ELSE IF m2.panic \/ bytes = PanicSlice
        THEN [m |-> [m2 EXCEPT !.panic = TRUE], ret |-> PanicSlice]
        ELSE [m |-> m2, ret |-> bytes]

\* Dictionary configurations: dict_cap a power of two (1, 2 or 4, as
\* Dictionary::new asserts), 1 <= la_cap <= dict_cap.
DictConfigs ==
    {c \in {1, 2, 4} \X (1..MaxLaCap) : c[2] <= c[1]}

\* The machine state the operations work on.
Machine == [self |-> dct, written |-> written, panic |-> FALSE]

DictionaryInit ==
    /\ \E c \in DictConfigs :
         \E garbage \in [0..(c[1] + c[2] - 1) -> Bytes] :
            /\ dct = DictionaryNew(c[1], c[2], garbage)
            /\ d_arg = <<c[1], c[2]>>
    /\ written = {}
    /\ hist = <<>>
    /\ staged = <<>>
    /\ d_op = "new"
    /\ d_ret = <<>>
    /\ d_status = "ok"

\* The state before Dictionary::new is called.
DictionaryUnconstructed ==
    /\ dct = [dict_cap |-> 0, la_cap |-> 0, buf |-> <<>>, dict_size |-> 0,
             head |-> 0, la_size |-> 0]
    /\ written = {}
    /\ hist = <<>>
    /\ staged = <<>>
    /\ d_op = "none"
    /\ d_arg = <<>>
    /\ d_ret = <<>>
    /\ d_status = "ok"

\* Dictionary::new called with any pair of capacities.
New ==
    /\ d_op = "none"
    /\ \E dict_cap \in 0..MaxNewCap, la_cap \in 0..MaxNewCap :
         /\ d_op' = "new"
         /\ d_arg' = <<dict_cap, la_cap>>
         /\ d_ret' = <<>>
         /\ IF new_assert(dict_cap)
            THEN /\ \E garbage \in [0..(dict_cap + la_cap - 1) -> Bytes] :
                      dct' = DictionaryNew(dict_cap, la_cap, garbage)
                 /\ d_status' = "ok"
            ELSE /\ dct' = dct
                 /\ d_status' = "panicked"
    /\ UNCHANGED <<written, hist, staged>>

\* Common effect of a call: the struct, the cells stored to, the outcome.
Called(op, arg, r) ==
    /\ dct' = r.m.self
    /\ written' = r.m.written
    /\ d_op' = op
    /\ d_arg' = arg
    /\ d_ret' = r.ret
    /\ d_status' = IF r.m.panic THEN "panicked" ELSE "ok"

AddToLookahead ==
    /\ d_status = "ok"
    /\ \E bytes \in SeqsOf(Bytes, 0, MaxArgLen) :
         LET r == add_to_lookahead(Machine, bytes)
         IN  /\ Called("add_to_lookahead", bytes, [m |-> r.m, ret |-> <<r.ret>>])
             /\ staged' = IF r.m.panic THEN staged
                          ELSE staged \o SliceTo(bytes, r.ret)
             /\ UNCHANGED hist

AddToDictionary ==
    /\ d_status = "ok"
    /\ \E bytes \in SeqsOf(Bytes, 0, MaxArgLen) :
         /\ Len(hist) + Len(bytes) <= MaxCommitted
         /\ LET r == add_to_dictionary(Machine, bytes)
            IN  /\ Called("add_to_dictionary", bytes, r)
                /\ staged' = <<>>
                /\ hist' = hist \o bytes

CommitLookaheadBytes ==
    /\ d_status = "ok"
    /\ \E n \in 0..MaxCopyLen :
         /\ Len(hist) + n <= MaxCommitted
         /\ LET r == commit_lookahead_bytes(Machine, n)
            IN  /\ Called("commit_lookahead_bytes", <<n>>, r)
                /\ IF r.m.panic
                   THEN UNCHANGED <<hist, staged>>
                   ELSE /\ hist' = hist \o SliceTo(staged, n)
                        /\ staged' = SliceFrom(staged, n)

ClearLookahead ==
    /\ d_status = "ok"
    /\ Called("clear_lookahead", <<>>, [m |-> clear_lookahead(Machine), ret |-> <<>>])
    /\ staged' = <<>>
    /\ UNCHANGED hist

LoadMatchIntoLookahead ==
    /\ d_status = "ok"
    /\ \E dist \in 0..dct.dict_cap, length \in 0..MaxCopyLen :
         LET r == load_match_into_lookahead(Machine, dist, length)
             asserted == dist < dct.dict_size /\ length + dct.la_size <= dct.la_cap
         IN  /\ Called("load_match_into_lookahead", <<dist, length>>, r)
             /\ staged' = IF asserted
                          THEN SliceFrom(ReplayRep(hist \o staged, Len(hist) - dist, length),
                                         Len(hist))
                          ELSE staged
             /\ UNCHANGED hist

LoadMatchIntoDictionary ==
    /\ d_status = "ok"
    /\ \E dist \in 0..dct.dict_cap, length \in 0..MaxMatchLen :
         /\ Len(hist) + length <= MaxCommitted
         /\ LET r == load_match_into_dictionary(Machine, dist, length)
                asserted == dist < dct.dict_size
            IN  /\ Called("load_match_into_dictionary", <<dist, length>>, r)
                /\ IF asserted
                   THEN /\ hist' = ReplayRep(hist, Len(hist) - dist, length)
                        /\ staged' = <<>>
                   ELSE UNCHANGED <<hist, staged>>

\* match_length takes &self: it returns a length and stores nothing.
MatchLength ==
    /\ d_status = "ok"
    /\ \E dist \in 0..dct.dict_cap :
         LET len == match_length(dct, dist)
         IN  /\ d_op' = "match_length"
             /\ d_arg' = <<dist>>
             /\ d_ret' = <<len>>
             /\ d_status' = IF len = PANIC THEN "panicked" ELSE "ok"
    /\ UNCHANGED <<dct, written, hist, staged>>

\* --------------------------------------------------------------- RingBuf
\* Longest byte string of arbitrary content passed to one write.
MaxWriteLen == 2
\* Bytes written to the ring over one run.
MaxRingWritten == 11

\* Bytes written to the ring over one run in which it is also read.
MaxReadStream == 9
\* Largest position passed to get and to [].
MaxIndex == 9

\* Arguments of write.
RingWrites ==
    SeqsOf(Bytes, 0, MaxWriteLen) \cup
    {[i \in 1..n |-> (i + k) % 2] : n \in 8..9, k \in 0..1}

\* usize::next_power_of_two: the smallest power of two >= n (1 for 0).
RECURSIVE next_power_of_two_from(_, _)
next_power_of_two_from(n, p) ==
    IF p >= n THEN p ELSE next_power_of_two_from(n, 2 * p)

next_power_of_two(n) == next_power_of_two_from(n, 1)

\* RingBuf::with_capacity; buf is allocated with set_len and not
\* initialised, so it holds whatever bytes (garbage) the allocation holds.
with_capacity(capacity, garbage) ==
    LET rounded == next_power_of_two(capacity)
    IN  [buf |-> [i \in 0..(rounded - 1) |-> garbage[i]],
         head |-> 0, len |-> 0, n |-> 0]

\* self.buf.len()
BufLen(self) == Cardinality(DOMAIN self.buf)

\* RingBuf::remaining_ahead
remaining_ahead(self) == BufLen(self) - self.head

\* RingBuf::wrap
ring_wrap(self, index) == BitAnd(index, BufLen(self) - 1)

\* RingBuf::wrap_offset
wrap_offset(self, offset) == ring_wrap(self, self.head + offset)

\* raw::read_u64 on a byte string; PanicSlice when index..index+8 is out of
\* bounds.
read_u64(buf, index) ==
    IF index + 8 > Len(buf)
    THEN PanicSlice
    ELSE from_le_bytes(SubSeq(buf, index + 1, index + 8))

\* u64::to_le_bytes of a value held as four 16-bit limbs.
to_le_bytes(src) ==
    [j \in 1..8 |-> IF j % 2 = 1
                    THEN src[(j + 1) \div 2] % 256
                    ELSE src[j \div 2] \div 256]

\* self.buf[from..from + Len(bytes)].copy_from_slice(bytes)
copy_from_slice(buf, from, bytes) ==
    [i \in DOMAIN buf |->
        IF i >= from /\ i < from + Len(bytes) THEN bytes[i - from + 1] ELSE buf[i]]

\* RingBuf::write_u64_unchecked
write_u64_unchecked(self, src, index) ==
    [self EXCEPT !.buf = copy_from_slice(self.buf, index, to_le_bytes(src))]

\* RingBuf::write, the loop copying chunks of 8 bytes: i = 0, 8, ...
RECURSIVE write_chunks(_, _, _, _)
write_chunks(self, buf, i, chunk_bytes) ==
    IF i < chunk_bytes
    THEN write_chunks(write_u64_unchecked(self, read_u64(buf, i), self.head + i),
                      buf, i + 8, chunk_bytes)
    ELSE self

\* RingBuf::write, the while loop: one pass copies up to the physical end.
RECURSIVE write_loop(_, _)
write_loop(self, buf) ==
    IF Len(buf) > 0
    THEN LET ahead == Min(Len(buf), remaining_ahead(self))
             chunk_bytes == ahead - (ahead % 8)
             s1 == write_chunks(self, buf, 0, chunk_bytes)
             s2 == [s1 EXCEPT !.buf = copy_from_slice(s1.buf, s1.head + chunk_bytes,
                                          SubSeq(buf, chunk_bytes + 1, ahead))]
             s3 == [s2 EXCEPT !.head = wrap_offset(s2, ahead)]
         IN  write_loop(s3, SliceFrom(buf, ahead))
    ELSE self

\* RingBuf::write, the number of passes of the while loop: each pass copies
\* one contiguous range of buf.
RECURSIVE write_passes(_, _)
write_passes(self, buf) ==
    IF Len(buf) > 0
    THEN LET ahead == Min(Len(buf), remaining_ahead(self))
             s3 == [self EXCEPT !.head = wrap_offset(self, ahead)]
         IN  1 + write_passes(s3, SliceFrom(buf, ahead))
    ELSE 0

\* RingBuf::write that does not cap len at the capacity.
write_uncapped_len(self, buf) ==
    LET len == Len(buf)
        s1 == write_loop(self, buf)
    IN  [self |-> [s1 EXCEPT !.len = self.len + len,
                             !.n = self.n + len],
         ret |-> len]

\* io::Write::write for RingBuf
write(self, buf) ==
    LET len == Len(buf)
        s1 == write_loop(self, buf)
    IN  [self |-> [s1 EXCEPT !.len = Min(self.len + len, BufLen(self)),
                             !.n = self.n + len],
         ret |-> len]

\* get that does not test for overwritten positions.
get_without_overwritten_test(position, buffer) ==
    IF position >= buffer.n
    THEN None
    ELSE Some(buffer.buf[ring_wrap(buffer, position)])

\* <usize as BufferIndex<RingBuf>>::get: position counts from the first byte
\* ever written.
get(position, buffer) ==
    IF position >= buffer.n \/ position + BufLen(buffer) < buffer.n
    THEN None
    ELSE Some(buffer.buf[ring_wrap(buffer, position)])

\* <usize as BufferIndex<RingBuf>>::index: get(..).expect(..)
ring_index(position, buffer) ==
    IF get(position, buffer) = None THEN PanicSlice ELSE get(position, buffer)

\* self.buf.split_at(mid)
split_at(buf, mid) ==
    <<[i \in 1..mid |-> buf[i - 1]],
      [i \in 1..(Cardinality(DOMAIN buf) - mid) |-> buf[mid + i - 1]]>>

\* as_slices that returns the slice at the head first.
as_slices_newest_first(self) ==
    LET head == split_at(self.buf, self.head)[1]
        tail == split_at(self.buf, self.head)[2]
    IN  IF self.len > Len(head)
        THEN <<head, SliceFrom(tail, Len(tail) - (self.len - Len(head)))>>
        ELSE <<SliceFrom(head, Len(head) - self.len), <<>> >>

\* RingBuf::as_slices; the subtraction tail.len() - (len - head.len()) panics
\* when it would go below zero.
as_slices(self) ==
    LET head == split_at(self.buf, self.head)[1]
        tail == split_at(self.buf, self.head)[2]
    IN  IF self.len > Len(head)
        THEN IF Len(tail) < self.len - Len(head)
             THEN <<PanicSlice, PanicSlice>>
             ELSE <<SliceFrom(tail, Len(tail) - (self.len - Len(head))), head>>
        ELSE <<<<>>, SliceFrom(head, Len(head) - self.len)>>

\* offset as usize, for an isize offset.
as_usize(offset) == offset % UsizeMod

\* RingBuf::wrap_offset_signed
wrap_offset_signed(self, offset) ==
    IF offset >= 0
    THEN ring_wrap(self, self.head + as_usize(offset))
    ELSE ring_wrap(self, wrapping_sub(self.head, as_usize(offset)))

\* RingBuf::tail of buffer.rs
tail(self) == wrap_offset_signed(self, -self.len)

\* <RingBuf as ops::Index<usize>>::index of buffer.rs; PanicSlice when the
\* assertion fails.
index_usize(self, i) ==
    IF ~(i < self.len)
    THEN PanicSlice
    ELSE <<self.buf[ring_wrap(self, tail(self) + i)]>>

\* <RingBuf as ops::Index<Distance>>::index of buffer.rs
index_distance(self, d) ==
    IF ~(d < self.len)
    THEN PanicSlice
    ELSE <<self.buf[wrap_offset_signed(self, -(d + 1))]>>

\* <RingBuf as Buffer>::get of buffer/ringbuf/index.rs
buffer_get(self, i) ==
    IF i >= self.n - self.len /\ i < self.len
    THEN Some(self.buf[ring_wrap(self, i)])
    ELSE None

\* The state before RingBuf::with_capacity is called.
RingInit ==
    /\ rb = [buf |-> <<>>, head |-> 0, len |-> 0, n |-> 0]
    /\ rb_stream = <<>>
    /\ rb_op = "none"
    /\ rb_arg = <<>>
    /\ rb_ret = <<>>

WithCapacity ==
    /\ rb_op = "none"
    /\ \E capacity \in {0, 1, 2, 3, 8} :
         \E garbage \in [0..(next_power_of_two(capacity) - 1) -> Bytes] :
            /\ rb' = with_capacity(capacity, garbage)
            /\ rb_arg' = <<capacity>>
    /\ rb_op' = "with_capacity"
    /\ rb_ret' = <<>>
    /\ UNCHANGED rb_stream

RingWrite ==
    /\ rb_op # "none"
    /\ \E bytes \in RingWrites :
         /\ Len(rb_stream) + Len(bytes) <= MaxRingWritten
         /\ LET r == write(rb, bytes)
            IN  /\ rb' = r.self
                /\ rb_ret' = <<r.ret>>
         /\ rb_arg' = bytes
         /\ rb_stream' = rb_stream \o bytes
    /\ rb_op' = "write"

\* rb.get(position)
RingGet ==
    /\ rb_op # "none"
    /\ \E position \in 0..MaxIndex :
         /\ rb_ret' = get(position, rb)
         /\ rb_arg' = <<position>>
    /\ rb_op' = "get"
    /\ UNCHANGED <<rb, rb_stream>>

\* rb[position]
RingIndex ==
    /\ rb_op # "none"
    /\ \E position \in 0..MaxIndex :
         /\ rb_ret' = ring_index(position, rb)
         /\ rb_arg' = <<position>>
    /\ rb_op' = "index"
    /\ UNCHANGED <<rb, rb_stream>>

\* Buffer::get(&rb, i)
RingBufferGet ==
    /\ rb_op # "none"
    /\ \E i \in 0..MaxIndex :
         /\ rb_ret' = buffer_get(rb, i)
         /\ rb_arg' = <<i>>
    /\ rb_op' = "buffer_get"
    /\ UNCHANGED <<rb, rb_stream>>

\* rb.as_slices()
RingAsSlices ==
    /\ rb_op # "none"
    /\ rb_ret' = as_slices(rb)
    /\ rb_arg' = <<>>
    /\ rb_op' = "as_slices"
    /\ UNCHANGED <<rb, rb_stream>>

\* rb[i] of buffer.rs, i a usize
RingIndexUsize ==
    /\ rb_op # "none"
    /\ \E i \in 0..MaxIndex :
         /\ rb_ret' = index_usize(rb, i)
         /\ rb_arg' = <<i>>
    /\ rb_op' = "index_usize"
    /\ UNCHANGED <<rb, rb_stream>>

\* rb[Distance(d)] of buffer.rs
RingIndexDistance ==
    /\ rb_op # "none"
    /\ \E d \in 0..MaxIndex :
         /\ rb_ret' = index_distance(rb, d)
         /\ rb_arg' = <<d>>
    /\ rb_op' = "index_distance"
    /\ UNCHANGED <<rb, rb_stream>>

\* The RingBuf is not in use.

\* ------------------------------------------------------------ buffer::raw
\* Longest byte string of arbitrary content compared by match_length.
MaxShortLen == 3
\* Longest byte string compared by match_length.
MaxLongLen == 17

\* Arguments of match_length: every short string, and long strings of zeros
\* with at most one byte set.
MatchInputs ==
    SeqsOf(Bytes, 0, MaxShortLen) \cup
    {[i \in 1..n |-> IF i = k THEN 1 ELSE 0] : n \in {7, 8, 9, 15, 16, MaxLongLen},
                                           k \in 0..MaxLongLen}

Max(a, b) == IF a > b THEN a ELSE b

\* raw::match_length, the loop comparing 8 bytes at a time.  The result is
\* <<len, reach>>, len = PANIC when a read leaves its slice.
RECURSIVE raw_match_length_chunks(_, _, _, _, _)
raw_match_length_chunks(lhs, rhs, len, chunk_bytes, reach) ==
    IF len < chunk_bytes
    THEN IF read_u64(lhs, len) = PanicSlice \/ read_u64(rhs, len) = PanicSlice
         THEN <<PANIC, reach>>
         ELSE IF read_u64(lhs, len) = read_u64(rhs, len)
         THEN raw_match_length_chunks(lhs, rhs, len + 8, chunk_bytes, len + 8)
         ELSE <<len, len + 8>>
    ELSE <<len, reach>>

\* raw::match_length, the loop comparing one byte at a time.
RECURSIVE raw_match_length_bytes(_, _, _, _, _)
raw_match_length_bytes(lhs, rhs, len, max_len, reach) ==
    IF len = PANIC THEN <<PANIC, reach>>
    ELSE IF len < max_len
    THEN IF len >= Len(lhs) \/ len >= Len(rhs)
         THEN <<PANIC, reach>>
         ELSE IF At(lhs, len) = At(rhs, len)
         THEN raw_match_length_bytes(lhs, rhs, len + 1, max_len, Max(reach, len + 1))
         ELSE <<len, Max(reach, len + 1)>>
    ELSE <<len, reach>>

\* match_length that compares whole chunks of 8 bytes only.
raw_match_length_chunks_only(lhs, rhs) ==
    LET max_len == Min(Len(lhs), Len(rhs))
        chunk_bytes == max_len - (max_len % 8)
    IN  raw_match_length_chunks(lhs, rhs, 0, chunk_bytes, 0)

\* raw::match_length
raw_match_length(lhs, rhs) ==
    LET max_len == Min(Len(lhs), Len(rhs))
        chunk_bytes == max_len - (max_len % 8)
        c == raw_match_length_chunks(lhs, rhs, 0, chunk_bytes, 0)
    IN  raw_match_length_bytes(lhs, rhs, c[1], max_len, c[2])

\* <S as FastCmp<T>>::match_length, the loop comparing 8 bytes at a time.
RECURSIVE fastcmp_chunks(_, _, _, _, _)
fastcmp_chunks(this, other, len, chunk_bytes, reach) ==
    IF len < chunk_bytes
    THEN IF read_u64(this, len) = PanicSlice \/ read_u64(other, len) = PanicSlice
         THEN <<PANIC, reach>>
         ELSE IF read_u64(this, len) = read_u64(other, len)
         THEN fastcmp_chunks(this, other, len + 8, chunk_bytes, len + 8)
         ELSE <<len, len + 8>>
    ELSE <<len, reach>>

\* <S as FastCmp<T>>::match_length, the loop comparing one byte at a time.
RECURSIVE fastcmp_bytes(_, _, _, _, _)
fastcmp_bytes(this, other, len, max_len, reach) ==
    IF len = PANIC THEN <<PANIC, reach>>
    ELSE IF len < max_len
    THEN IF len >= Len(this) \/ len >= Len(other)
         THEN <<PANIC, reach>>
         ELSE IF At(this, len) = At(other, len)
         THEN fastcmp_bytes(this, other, len + 1, max_len, Max(reach, len + 1))
         ELSE <<len, Max(reach, len + 1)>>
    ELSE <<len, reach>>

\* <S as FastCmp<T>>::match_length
fastcmp_match_length(this, other) ==
    LET max_len == Min(Len(this), Len(other))
        chunk_bytes == max_len - (max_len % 8)
        c == fastcmp_chunks(this, other, 0, chunk_bytes, 0)
    IN  fastcmp_bytes(this, other, c[1], max_len, c[2])

\* The two byte strings a comparison is about to be called with.
RawMatchInit ==
    /\ raw_buf = <<>>
    /\ raw_op = "none"
    /\ raw_arg \in MatchInputs \X MatchInputs
    /\ raw_ret = <<>>
    /\ raw_reach = 0

\* raw::match_length(lhs, rhs)
RawMatchLength ==
    /\ raw_op = "none"
    /\ raw_op' = "match_length"
    /\ raw_ret' = <<raw_match_length(raw_arg[1], raw_arg[2])[1]>>
    /\ raw_reach' = raw_match_length(raw_arg[1], raw_arg[2])[2]
    /\ UNCHANGED <<raw_buf, raw_arg>>

\* lhs.match_length(rhs) of FastCmp
FastCmpMatchLength ==
    /\ raw_op = "none"
    /\ raw_op' = "FastCmp::match_length"
    /\ raw_ret' = <<fastcmp_match_length(raw_arg[1], raw_arg[2])[1]>>
    /\ raw_reach' = fastcmp_match_length(raw_arg[1], raw_arg[2])[2]
    /\ UNCHANGED <<raw_buf, raw_arg>>

\* Longest buffer handed to read_u64 and write_u64, and largest index.
MaxRawBufLen == 9

\* Values written: 0, 1, 0x0807060504030201, u64::MAX, 1 << 63 and
\* 0x0080_0000_ff00_00ff, as 16-bit limbs.
U64Values ==
    {<<0, 0, 0, 0>>, <<1, 0, 0, 0>>, <<513, 1027, 1541, 2055>>,
     <<65535, 65535, 65535, 65535>>, <<0, 0, 0, 32768>>, <<255, 65280, 0, 128>>}

\* write_u64 that stores the most significant byte first.
write_u64_big_endian(buf, index, src) ==
    IF index + 8 > Len(buf)
    THEN PanicSlice
    ELSE [k \in 1..Len(buf) |->
            IF k > index /\ k <= index + 8
            THEN to_le_bytes(src)[9 - (k - index)]
            ELSE buf[k]]

\* raw::write_u64: the buffer afterwards; PanicSlice when index..index+8 is
\* out of bounds.
write_u64(buf, index, src) ==
    IF index + 8 > Len(buf)
    THEN PanicSlice
    ELSE [k \in 1..Len(buf) |->
            IF k > index /\ k <= index + 8
            THEN to_le_bytes(src)[k - index]
            ELSE buf[k]]

\* The buffer before the first call.
RawU64Init ==
    /\ raw_buf \in {[i \in 1..n |-> (i * k) % 256] : n \in 0..MaxRawBufLen, k \in {0, 37}}
    /\ raw_op = "none"
    /\ raw_arg = <<>>
    /\ raw_ret = <<>>
    /\ raw_reach = 0

\* raw::write_u64(&mut raw_buf, index, src)
WriteU64 ==
    /\ \E index \in 0..MaxRawBufLen, src \in U64Values :
         /\ raw_arg' = <<index, src>>
         /\ IF write_u64(raw_buf, index, src) = PanicSlice
            THEN raw_buf' = raw_buf /\ raw_ret' = PanicSlice
            ELSE raw_buf' = write_u64(raw_buf, index, src) /\ raw_ret' = <<>>
    /\ raw_op' = "write_u64"
    /\ UNCHANGED raw_reach

\* raw::read_u64(&raw_buf, index)
ReadU64 ==
    /\ \E index \in 0..MaxRawBufLen :
         /\ raw_arg' = <<index>>
         /\ raw_ret' = read_u64(raw_buf, index)
    /\ raw_op' = "read_u64"
    /\ UNCHANGED <<raw_buf, raw_reach>>

\* The functions of buffer::raw are not in use.
RawIdle ==
    /\ raw_buf = <<>>
    /\ raw_op = "none"
    /\ raw_arg = <<>>
    /\ raw_ret = <<>>
    /\ raw_reach = 0

\* -------------------------------------------------------------- StepLayer
\* Worker threads that enter traced spans.
NumWorkers == 2
\* Signals the UI loop sends over one run.
MaxSignals == 3

\* StepLayer::new and App::new: an empty channel whose Sender the App holds,
\* the Receiver in a free Mutex; no worker has entered a span.
StepInit ==
    /\ sl_queue = 0
    /\ sl_tx = "held"
    /\ sl_rx = 0
    /\ sl_poisoned = FALSE
    /\ sl_pc = [w \in (1..NumWorkers) |-> "run"]
    /\ sl_sent = 0
    /\ sl_released = 0

\* run, Key::Char(' '): app.step.send(())
SendStep ==
    /\ sl_tx = "held"
    /\ sl_sent < MaxSignals
    /\ sl_queue' = sl_queue + 1
    /\ sl_sent' = sl_sent + 1
    /\ UNCHANGED <<sl_tx, sl_rx, sl_poisoned, sl_pc, sl_released>>

\* run returns on Key::Char('q'): the App and its Sender are dropped.
Quit ==
    /\ sl_tx = "held"
    /\ sl_tx' = "dropped"
    /\ UNCHANGED <<sl_queue, sl_rx, sl_poisoned, sl_pc, sl_sent, sl_released>>

\* A worker enters a span: on_enter is called and asks for the lock.
OnEnter(w) ==
    /\ sl_pc[w] = "run"
    /\ sl_pc' = [sl_pc EXCEPT ![w] = "lock"]
    /\ UNCHANGED <<sl_queue, sl_tx, sl_rx, sl_poisoned, sl_sent, sl_released>>

\* on_enter, self.rx.lock().unwrap(): the lock is taken when it is free;
\* unwrap panics when the Mutex is poisoned.
OnEnterLock(w) ==
    /\ sl_pc[w] = "lock"
    /\ sl_rx = 0
    /\ IF sl_poisoned
       THEN /\ sl_pc' = [sl_pc EXCEPT ![w] = "panicked"]
            /\ UNCHANGED sl_rx
       ELSE /\ sl_pc' = [sl_pc EXCEPT ![w] = "recv"]
            /\ sl_rx' = w
    /\ UNCHANGED <<sl_queue, sl_tx, sl_poisoned, sl_sent, sl_released>>

\* on_enter whose recv takes every queued signal.
OnEnterRecv_drains(w) ==
    /\ sl_pc[w] = "recv"
    /\ sl_queue > 0
    /\ sl_queue' = 0
    /\ sl_rx' = 0
    /\ sl_pc' = [sl_pc EXCEPT ![w] = "run"]
    /\ sl_released' = sl_released + 1
    /\ UNCHANGED <<sl_tx, sl_poisoned, sl_sent>>

\* on_enter, recv().unwrap() with a signal queued: one signal is taken, the
\* guard is dropped and on_enter returns.
OnEnterRecv(w) ==
    /\ sl_pc[w] = "recv"
    /\ sl_queue > 0
    /\ sl_queue' = sl_queue - 1
    /\ sl_rx' = 0
    /\ sl_pc' = [sl_pc EXCEPT ![w] = "run"]
    /\ sl_released' = sl_released + 1
    /\ UNCHANGED <<sl_tx, sl_poisoned, sl_sent>>

\* on_enter, recv().unwrap() on an empty channel whose Sender is dropped:
\* recv fails, unwrap panics and the guard dropped while unwinding poisons
\* the Mutex.
OnEnterRecvDisconnected(w) ==
    /\ sl_pc[w] = "recv"
    /\ sl_queue = 0
    /\ sl_tx = "dropped"
    /\ sl_rx' = 0
    /\ sl_poisoned' = TRUE
    /\ sl_pc' = [sl_pc EXCEPT ![w] = "panicked"]
    /\ UNCHANGED <<sl_queue, sl_tx, sl_sent, sl_released>>

\* ------------------------------------------------------------ debug::step
\* Threads that call step, set_step and free_step.
NumThreads == 2
\* Signals queued on one channel at a time.
MaxQueued == 2

\* The lazy_static STEP: Mutex::new(None); no channel yet.
GlobalStepInit ==
    /\ STEP = "None"
    /\ step_lock = 0
    /\ step_poisoned = FALSE
    /\ step_queue = 0
    /\ step_tx = "dropped"
    /\ step_pc = [t \in (1..NumThreads) |-> "idle"]

\* A thread calls step, set_step or free_step and asks for the lock.
Call(t) ==
    /\ step_pc[t] = "idle"
    /\ \E f \in {"step_lock", "set_lock", "free_lock"} :
         step_pc' = [step_pc EXCEPT ![t] = f]
    /\ UNCHANGED <<STEP, step_lock, step_poisoned, step_queue, step_tx>>

\* STEP.lock().unwrap() on a poisoned Mutex, in any of the three functions.
LockPoisoned(t) ==
    /\ step_pc[t] \in {"step_lock", "set_lock", "free_lock"}
    /\ step_lock = 0
    /\ step_poisoned
    /\ step_pc' = [step_pc EXCEPT ![t] = "panicked"]
    /\ UNCHANGED <<STEP, step_lock, step_poisoned, step_queue, step_tx>>

\* set_step: *STEP.lock().unwrap() = Some(step), the receiver of a new
\* channel on which k signals are already queued.
SetStep(t) ==
    /\ step_pc[t] = "set_lock"
    /\ step_lock = 0
    /\ ~step_poisoned
    /\ STEP' = "Some"
    /\ \E k \in 0..1 : step_queue' = k
    /\ step_tx' = "held"
    /\ step_pc' = [step_pc EXCEPT ![t] = "idle"]
    /\ UNCHANGED <<step_lock, step_poisoned>>

\* free_step: STEP.lock().unwrap().take()
FreeStep(t) ==
    /\ step_pc[t] = "free_lock"
    /\ step_lock = 0
    /\ ~step_poisoned
    /\ STEP' = "None"
    /\ step_pc' = [step_pc EXCEPT ![t] = "idle"]
    /\ UNCHANGED <<step_lock, step_poisoned, step_queue, step_tx>>

\* step, STEP.lock().unwrap(): with None in STEP the guard is dropped and
\* step returns; with Some the guard lives through the if-let body, so the
\* lock is held while the thread waits in recv.
StepLock(t) ==
    /\ step_pc[t] = "step_lock"
    /\ step_lock = 0
    /\ ~step_poisoned
    /\ IF STEP = "Some"
       THEN /\ step_lock' = t
            /\ step_pc' = [step_pc EXCEPT ![t] = "step_recv"]
       ELSE /\ step_pc' = [step_pc EXCEPT ![t] = "idle"]
            /\ UNCHANGED step_lock
    /\ UNCHANGED <<STEP, step_poisoned, step_queue, step_tx>>

\* step, step.recv().unwrap() with a signal queued.
StepRecv(t) ==
    /\ step_pc[t] = "step_recv"
    /\ step_queue > 0
    /\ step_queue' = step_queue - 1
    /\ step_lock' = 0
    /\ step_pc' = [step_pc EXCEPT ![t] = "idle"]
    /\ UNCHANGED <<STEP, step_poisoned, step_tx>>

\* step, step.recv().unwrap() on an empty channel whose Sender is dropped:
\* unwrap panics and poisons STEP.
StepRecvDisconnected(t) ==
    /\ step_pc[t] = "step_recv"
    /\ step_queue = 0
    /\ step_tx = "dropped"
    /\ step_lock' = 0
    /\ step_poisoned' = TRUE
    /\ step_pc' = [step_pc EXCEPT ![t] = "panicked"]
    /\ UNCHANGED <<STEP, step_queue, step_tx>>

\* The holder of the Sender sends a signal.
SendSignal ==
    /\ STEP = "Some"
    /\ step_tx = "held"
    /\ step_queue < MaxQueued
    /\ step_queue' = step_queue + 1
    /\ UNCHANGED <<STEP, step_lock, step_poisoned, step_tx, step_pc>>

\* The holder of the Sender drops it.
DropSender ==
    /\ step_tx = "held"
    /\ step_tx' = "dropped"
    /\ UNCHANGED <<STEP, step_lock, step_poisoned, step_queue, step_pc>>

\* The other component is not running.
CompressorIdle ==
    /\ comp = CompressorNew(1)
    /\ input = <<>>
    /\ consumed = 0
    /\ tokens = <<>>
    /\ c_ret = <<0, 0>>
    /\ c_status = "done"
    /\ c_op = "finish"

DictionaryIdle ==
    /\ dct = DictionaryNew(2, 1, [i \in 0..2 |-> 0])
    /\ written = {}
    /\ hist = <<>>
    /\ staged = <<>>
    /\ d_op = "new"
    /\ d_arg = <<2, 1>>
    /\ d_ret = <<>>
    /\ d_status = "ok"

NextCompressor ==
    \/ CompressorWrite /\ UNCHANGED <<dvars, rvars, uvars, svars, gvars>>
    \/ CompressorFinish /\ UNCHANGED <<dvars, rvars, uvars, svars, gvars>>

InitCompressor == CompressorInit /\ DictionaryIdle /\ RawIdle /\ RingInit /\ StepInit /\ GlobalStepInit

SpecCompressor == InitCompressor /\ [][NextCompressor]_vars

\* The compression of one input with calls of flush between the writes.
NextFlush ==
    \/ CompressorWrite /\ UNCHANGED <<dvars, rvars, uvars, svars, gvars>>
    \/ CompressorFlush /\ UNCHANGED <<dvars, rvars, uvars, svars, gvars>>
    \/ CompressorFinish /\ UNCHANGED <<dvars, rvars, uvars, svars, gvars>>

SpecFlush == InitCompressor /\ [][NextFlush]_vars

NextDictionary ==
    \/ AddToLookahead /\ UNCHANGED <<cvars, rvars, uvars, svars, gvars>>
    \/ AddToDictionary /\ UNCHANGED <<cvars, rvars, uvars, svars, gvars>>
    \/ CommitLookaheadBytes /\ UNCHANGED <<cvars, rvars, uvars, svars, gvars>>
    \/ ClearLookahead /\ UNCHANGED <<cvars, rvars, uvars, svars, gvars>>
    \/ LoadMatchIntoLookahead /\ UNCHANGED <<cvars, rvars, uvars, svars, gvars>>
    \/ LoadMatchIntoDictionary /\ UNCHANGED <<cvars, rvars, uvars, svars, gvars>>

InitDictionary == CompressorIdle /\ RingInit /\ RawIdle /\ DictionaryInit /\ StepInit /\ GlobalStepInit

SpecDictionary == InitDictionary /\ [][NextDictionary]_vars

\* Only add_to_lookahead and commit_lookahead_bytes are called.
NextLookahead ==
    \/ AddToLookahead /\ UNCHANGED <<cvars, rvars, uvars, svars, gvars>>
    \/ CommitLookaheadBytes /\ UNCHANGED <<cvars, rvars, uvars, svars, gvars>>

SpecLookahead == InitDictionary /\ [][NextLookahead]_vars

\* The match finder's use: bytes are staged, matched against the history
\* and committed.
NextMatch ==
    \/ AddToLookahead /\ UNCHANGED <<cvars, rvars, uvars, svars, gvars>>
    \/ AddToDictionary /\ UNCHANGED <<cvars, rvars, uvars, svars, gvars>>
    \/ CommitLookaheadBytes /\ UNCHANGED <<cvars, rvars, uvars, svars, gvars>>
    \/ MatchLength /\ UNCHANGED <<cvars, rvars, uvars, svars, gvars>>

SpecMatch == InitDictionary /\ [][NextMatch]_vars

\* Construction alone, from any pair of capacities.
InitNew == CompressorIdle /\ RingInit /\ RawIdle /\ DictionaryUnconstructed /\ StepInit /\ GlobalStepInit

NextNew == New /\ UNCHANGED <<cvars, rvars, uvars, svars, gvars>>

SpecNew == InitNew /\ [][NextNew]_vars

\* A RingBuf is created and written to.
InitRingBuf == CompressorIdle /\ DictionaryIdle /\ RawIdle /\ RingInit /\ StepInit /\ GlobalStepInit

NextRingBuf ==
    \/ WithCapacity /\ UNCHANGED <<cvars, dvars, uvars, svars, gvars>>
    \/ RingWrite /\ UNCHANGED <<cvars, dvars, uvars, svars, gvars>>

SpecRingBuf == InitRingBuf /\ [][NextRingBuf]_vars

\* Writes to a RingBuf interleaved with reads by position and as slices,
\* over streams of at most MaxReadStream bytes.
NextRingRead ==
    \/ WithCapacity /\ UNCHANGED <<cvars, dvars, uvars, svars, gvars>>
    \/ RingWrite /\ Len(rb_stream') <= MaxReadStream /\ UNCHANGED <<cvars, dvars, uvars, svars, gvars>>
    \/ RingGet /\ UNCHANGED <<cvars, dvars, uvars, svars, gvars>>
    \/ RingIndex /\ UNCHANGED <<cvars, dvars, uvars, svars, gvars>>
    \/ RingAsSlices /\ UNCHANGED <<cvars, dvars, uvars, svars, gvars>>

SpecRingRead == InitRingBuf /\ [][NextRingRead]_vars

\* Writes to the RingBuf of buffer.rs interleaved with indexing by usize and
\* by Distance.
NextRingDistance ==
    \/ WithCapacity /\ UNCHANGED <<cvars, dvars, uvars, svars, gvars>>
    \/ RingWrite /\ Len(rb_stream') <= MaxReadStream /\ UNCHANGED <<cvars, dvars, uvars, svars, gvars>>
    \/ RingIndexUsize /\ UNCHANGED <<cvars, dvars, uvars, svars, gvars>>
    \/ RingIndexDistance /\ UNCHANGED <<cvars, dvars, uvars, svars, gvars>>

SpecRingDistance == InitRingBuf /\ [][NextRingDistance]_vars

\* Writes to a RingBuf interleaved with reads through the Buffer trait.
NextRingBuffer ==
    \/ WithCapacity /\ UNCHANGED <<cvars, dvars, uvars, svars, gvars>>
    \/ RingWrite /\ Len(rb_stream') <= MaxReadStream /\ UNCHANGED <<cvars, dvars, uvars, svars, gvars>>
    \/ RingBufferGet /\ UNCHANGED <<cvars, dvars, uvars, svars, gvars>>

SpecRingBuffer == InitRingBuf /\ [][NextRingBuffer]_vars

\* One prefix comparison of two byte strings.
InitRawMatch == CompressorIdle /\ DictionaryIdle /\ RingInit /\ RawMatchInit /\ StepInit /\ GlobalStepInit

NextRawMatch ==
    \/ RawMatchLength /\ UNCHANGED <<cvars, dvars, rvars, svars, gvars>>
    \/ FastCmpMatchLength /\ UNCHANGED <<cvars, dvars, rvars, svars, gvars>>

SpecRawMatch == InitRawMatch /\ [][NextRawMatch]_vars

\* 64-bit values written to and read from one byte buffer.
InitRawU64 == CompressorIdle /\ DictionaryIdle /\ RingInit /\ RawU64Init /\ StepInit /\ GlobalStepInit

NextRawU64 ==
    \/ WriteU64 /\ UNCHANGED <<cvars, dvars, rvars, svars, gvars>>
    \/ ReadU64 /\ UNCHANGED <<cvars, dvars, rvars, svars, gvars>>

SpecRawU64 == InitRawU64 /\ [][NextRawU64]_vars

\* One run exercises one buffer: a Dictionary constructed by new, or a
\* RingBuf constructed by with_capacity, is stored to and read from.
InitStorage ==
    /\ CompressorIdle
    /\ RawIdle
    /\ RingInit
    /\ (DictionaryInit \/ DictionaryUnconstructed)
    /\ StepInit
    /\ GlobalStepInit

NextStorage ==
    \/ d_op # "none" /\ AddToLookahead /\ UNCHANGED <<cvars, rvars, uvars, svars, gvars>>
    \/ d_op # "none" /\ AddToDictionary /\ UNCHANGED <<cvars, rvars, uvars, svars, gvars>>
    \/ d_op # "none" /\ CommitLookaheadBytes /\ UNCHANGED <<cvars, rvars, uvars, svars, gvars>>
    \/ d_op # "none" /\ ClearLookahead /\ UNCHANGED <<cvars, rvars, uvars, svars, gvars>>
    \/ d_op # "none" /\ LoadMatchIntoLookahead /\ UNCHANGED <<cvars, rvars, uvars, svars, gvars>>
    \/ d_op # "none" /\ LoadMatchIntoDictionary /\ UNCHANGED <<cvars, rvars, uvars, svars, gvars>>
    \/ d_op # "none" /\ MatchLength /\ UNCHANGED <<cvars, rvars, uvars, svars, gvars>>
    \/ d_op = "none" /\ WithCapacity /\ UNCHANGED <<cvars, dvars, uvars, svars, gvars>>
    \/ RingWrite /\ Len(rb_stream') <= MaxReadStream /\ UNCHANGED <<cvars, dvars, uvars, svars, gvars>>
    \/ RingGet /\ UNCHANGED <<cvars, dvars, uvars, svars, gvars>>
    \/ RingAsSlices /\ UNCHANGED <<cvars, dvars, uvars, svars, gvars>>

SpecStorage == InitStorage /\ [][NextStorage]_vars

\* The debugger shell: the UI loop sends step signals while workers enter
\* spans.
InitStepGate == CompressorIdle /\ DictionaryIdle /\ RingInit /\ RawIdle /\ StepInit /\ GlobalStepInit

NextStepGate ==
    \/ SendStep /\ UNCHANGED <<cvars, dvars, rvars, uvars, gvars>>
    \/ Quit /\ UNCHANGED <<cvars, dvars, rvars, uvars, gvars>>
    \/ \E w \in (1..NumWorkers) : OnEnter(w) /\ UNCHANGED <<cvars, dvars, rvars, uvars, gvars>>
    \/ \E w \in (1..NumWorkers) : OnEnterLock(w) /\ UNCHANGED <<cvars, dvars, rvars, uvars, gvars>>
    \/ \E w \in (1..NumWorkers) : OnEnterRecv(w) /\ UNCHANGED <<cvars, dvars, rvars, uvars, gvars>>
    \/ \E w \in (1..NumWorkers) : OnEnterRecvDisconnected(w) /\ UNCHANGED <<cvars, dvars, rvars, uvars, gvars>>

SpecStepGate == InitStepGate /\ [][NextStepGate]_vars

\* Threads call step, set_step and free_step on the global STEP.
InitGlobalStep == CompressorIdle /\ DictionaryIdle /\ RingInit /\ RawIdle /\ StepInit /\ GlobalStepInit

NextGlobalStep ==
    \/ \E t \in (1..NumThreads) : Call(t) /\ UNCHANGED <<cvars, dvars, rvars, uvars, svars>>
    \/ \E t \in (1..NumThreads) : LockPoisoned(t) /\ UNCHANGED <<cvars, dvars, rvars, uvars, svars>>
    \/ \E t \in (1..NumThreads) : SetStep(t) /\ UNCHANGED <<cvars, dvars, rvars, uvars, svars>>
    \/ \E t \in (1..NumThreads) : FreeStep(t) /\ UNCHANGED <<cvars, dvars, rvars, uvars, svars>>
    \/ \E t \in (1..NumThreads) : StepLock(t) /\ UNCHANGED <<cvars, dvars, rvars, uvars, svars>>
    \/ \E t \in (1..NumThreads) : StepRecv(t) /\ UNCHANGED <<cvars, dvars, rvars, uvars, svars>>
    \/ \E t \in (1..NumThreads) : StepRecvDisconnected(t) /\ UNCHANGED <<cvars, dvars, rvars, uvars, svars>>
    \/ SendSignal /\ UNCHANGED <<cvars, dvars, rvars, uvars, svars>>
    \/ DropSender /\ UNCHANGED <<cvars, dvars, rvars, uvars, svars>>

SpecGlobalStep == InitGlobalStep /\ [][NextGlobalStep]_vars

\* ------------------------------------------------------------------ claims

\* The last n bytes of a sequence.
LastN(s, n) == SubSeq(s, Len(s) - n + 1, Len(s))

\* C1. Round-trip: once the compressor has stopped working on input X,
\* replaying the tokens it emitted (Literal appends its byte, Rep copies
\* from the output built so far) gives back X exactly.
C1_RoundTrip ==
    c_status # "running" => Replay(<<>>, tokens) = input

\* C2. Length conservation: the last write returned the number of bytes its
\* token covers, between 1 and the length of the buffer it was given, and
\* once the compressor has stopped the token lengths sum to |X|.
C2_LengthConservation ==
    /\ tokens # <<>> =>
         /\ c_ret[2] = TokenLen(tokens[Len(tokens)])
         /\ c_ret[2] >= 1
         /\ c_ret[2] <= c_ret[1]
    /\ c_status # "running" => SumTokenLen(tokens) = Len(input)

\* C3. No failure on valid input: write never panics; the match loop never
\* indexes the lookahead at or beyond its length.
C3_NoPanic ==
    c_status # "panicked"

\* C4. Mirror invariant: for every physical index i below la_cap that has
\* been written, the byte at dict_cap + i equals the byte at i.
C4_Mirror ==
    \A i \in 0..(dct.la_cap - 1) :
        i \in written => dct.buf[dct.dict_cap + i] = dct.buf[i]

\* C5. Size invariant: la_size <= la_cap and dict_size + la_size <= dict_cap
\* after every public operation.
C5_Size ==
    /\ dct.la_size <= dct.la_cap
    /\ dct.dict_size + dct.la_size <= dct.dict_cap

\* C6. Head invariant: 0 <= head < dict_cap and head is the number of bytes
\* committed to the history so far modulo dict_cap; staging bytes in the
\* lookahead commits nothing, so it leaves head where it was.
C6_Head ==
    /\ dct.head >= 0
    /\ dct.head < dct.dict_cap
    /\ dct.head = Len(hist) % dct.dict_cap

\* C6 witness: commits have taken head around the end of a two-byte ring,
\* the last of them a commit from the lookahead.
C6_HeadWrapped ==
    /\ d_status = "ok"
    /\ d_op = "commit_lookahead_bytes"
    /\ d_ret # <<>>
    /\ dct.dict_cap = 2
    /\ Len(hist) = 3
    /\ dct.head = 1

\* C7. History validity: for every distance d < dict_size, the byte at
\* physical index (head - d - 1) mod dict_cap is the (d+1)-th most recently
\* committed byte.
C7_History ==
    \A d \in 0..(dct.dict_size - 1) :
        /\ d < Len(hist)
        /\ dct.buf[(dct.head - d - 1) % dct.dict_cap] = hist[Len(hist) - d]

\* C8. dictionary() returns two slices whose concatenation is the dict_size
\* most recently committed bytes, oldest first.
C8_Dictionary ==
    (d_status = "ok" /\ dct.dict_size <= Len(hist)) =>
        dictionary(dct)[1] \o dictionary(dct)[2] = LastN(hist, dct.dict_size)

\* C9. lookahead() returns exactly the bytes accepted by add_to_lookahead
\* and not yet committed, in acceptance order, la_size of them.
C9_Lookahead ==
    d_status = "ok" =>
        /\ lookahead(dct) = staged
        /\ Len(staged) = dct.la_size

\* C10. Commit is first-in-first-out: the slice commit_lookahead_bytes(k)
\* returns is the next k accepted bytes, the ones this commit appends to the
\* history, so the returned slices concatenate to a prefix of the accepted
\* bytes.
C10_CommitFifo ==
    (d_status = "ok" /\ d_op = "commit_lookahead_bytes") =>
        d_ret = LastN(hist, Len(d_ret))

\* The longest prefix of the lookahead la, starting from length l, that
\* equals the stream h \o la read from the history byte at distance d.
RECURSIVE PrefixLen(_, _, _, _)
PrefixLen(h, la, d, l) ==
    IF l < Len(la) /\ la[l + 1] = (h \o la)[Len(h) - d + l]
    THEN PrefixLen(h, la, d, l + 1)
    ELSE l

\* C11. match_length is maximal: for a distance d < dict_size the call
\* returns the largest l <= la_size such that the first l lookahead bytes
\* equal the stream replayed from the history byte at distance d.
C11_MatchLengthMaximal ==
    (d_op = "match_length" /\ d_arg[1] < dct.dict_size) =>
        /\ d_status = "ok"
        /\ d_arg[1] < Len(hist)
        /\ d_ret = <<PrefixLen(hist, staged, d_arg[1], 0)>>

\* C12. match_length fails exactly when distance >= dict_size, whatever
\* la_size is, returns 0 when distance < dict_size and la_size = 0, and
\* leaves the dictionary as it was.
C12_MatchLengthBounds ==
    [][d_op' = "match_length" =>
          /\ (d_status' = "panicked") <=> (d_arg'[1] >= dct.dict_size)
          /\ (d_arg'[1] < dct.dict_size /\ dct.la_size = 0) => d_ret' = <<0>>
          /\ dct' = dct]_vars

\* C12 witness: a call at distance == dict_size on a dictionary with history
\* and a staged lookahead has failed.
C12_FailedAtDictSize ==
    /\ d_op = "match_length"
    /\ d_status = "panicked"
    /\ d_arg[1] = dct.dict_size
    /\ dct.dict_size > 0
    /\ dct.la_size > 0

\* C13. add_to_lookahead(bytes) accepts the first n = min(|bytes|,
\* la_cap - la_size) bytes: it returns n, the lookahead grows by exactly
\* those bytes, dict_size becomes min(dict_size, dict_cap - la_size), head
\* stays, and a call on a full lookahead changes nothing.
C13_AddToLookahead ==
    [][d_op' = "add_to_lookahead" =>
          LET n == Min(Len(d_arg'), dct.la_cap - dct.la_size)
          IN  /\ d_status' = "ok"
              /\ d_ret' = <<n>>
              /\ dct'.la_size = dct.la_size + n
              /\ dct'.dict_size = Min(dct.dict_size, dct.dict_cap - dct'.la_size)
              /\ dct'.head = dct.head
              /\ lookahead(dct') = lookahead(dct) \o SliceTo(d_arg', n)
              /\ dct.la_size = dct.la_cap => dct' = dct]_vars

\* C14. add_to_dictionary(bytes) discards the lookahead, moves head to
\* (head + |bytes|) mod dict_cap, sets dict_size to min(dict_size + |bytes|,
\* dict_cap), and the history then ends with bytes: the byte at distance d is
\* the (d+1)-th byte of bytes from its end, for the last dict_cap of them.
C14_AddToDictionary ==
    [][d_op' = "add_to_dictionary" =>
          LET bytes == d_arg'
          IN  /\ d_status' = "ok"
              /\ dct'.la_size = 0
              /\ dct'.head = (dct.head + Len(bytes)) % dct.dict_cap
              /\ dct'.dict_size = Min(dct.dict_size + Len(bytes), dct.dict_cap)
              /\ \A d \in 0..(Min(Len(bytes), dct.dict_cap) - 1) :
                    dct'.buf[(dct'.head - d - 1) % dct.dict_cap] = bytes[Len(bytes) - d]]_vars

\* C14 witness: a call with more bytes than the dictionary holds has filled
\* the dictionary.
C14_LongerThanDictionary ==
    /\ d_op = "add_to_dictionary"
    /\ d_status = "ok"
    /\ Len(d_arg) > dct.dict_cap
    /\ dct.dict_size = dct.dict_cap
    /\ dct.la_size = 0

\* The n bytes a copy from distance d replays: b[i] = h[i mod (d + 1)], with
\* h the last d + 1 bytes of the committed stream.
Overlapped(stream, d, n) ==
    LET h == LastN(stream, d + 1)
    IN  [i \in 1..n |-> h[((i - 1) % (d + 1)) + 1]]

\* C15. Overlapping copy into the lookahead: on an empty lookahead, for a
\* distance d < dict_size and a length L <= la_cap (L > d + 1 included),
\* load_match_into_lookahead(d, L) leaves lookahead() equal to the L bytes
\* b[i] = h[i mod (d + 1)], raises la_size by L and keeps head.
C15_OverlappingCopy ==
    [][(/\ d_op' = "load_match_into_lookahead"
        /\ dct.la_size = 0
        /\ d_arg'[1] < dct.dict_size
        /\ d_arg'[2] + dct.la_size <= dct.la_cap) =>
          /\ d_status' = "ok"
          /\ d_arg'[1] < Len(hist)
          /\ lookahead(dct') = Overlapped(hist, d_arg'[1], d_arg'[2])
          /\ dct'.la_size = dct.la_size + d_arg'[2]
          /\ dct'.head = dct.head]_vars

\* C16. The slice load_match_into_lookahead(d, L) and
\* load_match_into_dictionary(d, L) return is exactly the L bytes the call
\* copied, for every distance d < dict_size (and L + la_size <= la_cap for
\* the lookahead).
C16_ReturnedSlice ==
    [][LET d == d_arg'[1]
           L == d_arg'[2]
           pos == wrap_sub(dct, dct.head, d + 1)
       IN  /\ (/\ d_op' = "load_match_into_lookahead"
               /\ d < dct.dict_size
               /\ L + dct.la_size <= dct.la_cap) =>
                 /\ d_status' = "ok"
                 /\ d_ret' = copied(Machine, pos, dct.head + dct.la_size, L)
           /\ (d_op' = "load_match_into_dictionary" /\ d < dct.dict_size) =>
                 /\ d_status' = "ok"
                 /\ d_ret' = copied(Machine, pos, dct.head, L)]_vars

\* C17. load_match_into_dictionary(d, L) with d < dict_size appends to the
\* history the L bytes replayed from distance d (overlap allowed): the byte
\* at distance k is then the (k+1)-th of them from the end; head becomes
\* (head + L) mod dict_cap, dict_size min(dict_size + L, dict_cap) and
\* la_size 0.
C17_LoadMatchIntoDictionary ==
    [][(d_op' = "load_match_into_dictionary" /\ d_arg'[1] < dct.dict_size) =>
          LET d == d_arg'[1]
              L == d_arg'[2]
          IN  /\ d_status' = "ok"
              /\ d < Len(hist)
              /\ \A k \in 0..(Min(L, dct.dict_cap) - 1) :
                    dct'.buf[(dct'.head - k - 1) % dct.dict_cap] =
                        Overlapped(hist, d, L)[L - k]
              /\ dct'.head = (dct.head + L) % dct.dict_cap
              /\ dct'.dict_size = Min(dct.dict_size + L, dct.dict_cap)
              /\ dct'.la_size = 0]_vars

\* C18. Precondition violations fail and change nothing: the load_match
\* operations fail when distance >= dict_size, load_match_into_lookahead
\* fails when length + la_size > la_cap, commit_lookahead_bytes(k) fails when
\* k > la_size; a failing call leaves buf, head, dict_size and la_size as
\* they were.
C18_PreconditionsFail ==
    [][(\/ /\ d_op' \in {"load_match_into_lookahead", "load_match_into_dictionary"}
           /\ d_arg'[1] >= dct.dict_size
        \/ /\ d_op' = "load_match_into_lookahead"
           /\ d_arg'[2] + dct.la_size > dct.la_cap
        \/ /\ d_op' = "commit_lookahead_bytes"
           /\ d_arg'[1] > dct.la_size) =>
          /\ d_status' = "panicked"
          /\ dct' = dct]_vars

\* C18 witness: load_match_into_lookahead was given a valid distance and a
\* length that does not fit the lookahead, on a dictionary in use, and failed.
C18_LengthRejected ==
    /\ d_op = "load_match_into_lookahead"
    /\ d_status = "panicked"
    /\ d_arg[1] < dct.dict_size
    /\ d_arg[2] + dct.la_size > dct.la_cap
    /\ d_arg[2] <= dct.la_cap
    /\ dct.la_size > 0

\* n is a nonzero power of two.
PowerOfTwo(n) == \E k \in 0..29 : n = 2^k

\* C19. Dictionary::new(dict_cap, la_cap) succeeds exactly when dict_cap is
\* a nonzero power of two and 0 < la_cap <= dict_cap; on success head,
\* dict_size and la_size are zero and the buffer has dict_cap + la_cap bytes.
C19_NewValidates ==
    d_op = "new" =>
        LET dict_cap == d_arg[1]
            la_cap == d_arg[2]
        IN  /\ (d_status = "ok") <=>
                  (PowerOfTwo(dict_cap) /\ la_cap # 0 /\ la_cap <= dict_cap)
            /\ d_status = "ok" =>
                  /\ dct.head = 0
                  /\ dct.dict_size = 0
                  /\ dct.la_size = 0
                  /\ DOMAIN dct.buf = 0..(dict_cap + la_cap - 1)

\* C20. RingBuf invariants: after any sequence of writes, with n the number
\* of bytes ever written and C the physical capacity, a power of two:
\* head = n mod C, len = min(n, C), 0 <= head < C; write returns the length
\* of its argument.
C20_RingBufInvariants ==
    rb_op # "none" =>
        LET n == Len(rb_stream)
            C == BufLen(rb)
        IN  /\ PowerOfTwo(C)
            /\ rb.head = n % C
            /\ rb.len = Min(n, C)
            /\ rb.head >= 0
            /\ rb.head < C
            /\ rb_op = "write" => rb_ret = <<Len(rb_arg)>>

\* C20 witness: after earlier writes, one write longer than an 8-byte ring
\* has gone around its end.
C20_WroteMoreThanCapacity ==
    /\ rb_op = "write"
    /\ BufLen(rb) = 8
    /\ Len(rb_arg) > BufLen(rb)
    /\ Len(rb_stream) > Len(rb_arg)
    /\ rb.len = 8

\* C21. Virtual indexing never returns overwritten data: with n bytes ever
\* written and C the capacity, get(p) returns the p-th byte ever written when
\* n - len <= p < n and absent when p >= n or p < n - C; rb[p] panics exactly
\* where get(p) is absent and otherwise returns what get returns.
C21_VirtualIndexing ==
    LET n == Len(rb_stream)
        C == BufLen(rb)
        p == rb_arg[1]
    IN  /\ rb_op = "get" =>
              /\ (n - rb.len <= p /\ p < n) => rb_ret = Some(rb_stream[p + 1])
              /\ (p >= n \/ p < n - C) => rb_ret = None
        /\ rb_op = "index" =>
              /\ (rb_ret = PanicSlice) <=> (get(p, rb) = None)
              /\ rb_ret # PanicSlice => rb_ret = get(p, rb)

\* C21 witness: on a ring that has wrapped, get was asked for the newest
\* overwritten position and answered absent.
C21_OverwrittenAbsent ==
    /\ rb_op = "get"
    /\ Len(rb_stream) > BufLen(rb)
    /\ BufLen(rb) >= 4
    /\ rb_arg[1] = Len(rb_stream) - BufLen(rb) - 1
    /\ rb_ret = None

\* C22. as_slices returns (older, newer) whose concatenation is the last
\* len = min(n, C) bytes written, in the order they were written.
C22_AsSlices ==
    rb_op = "as_slices" =>
        rb_ret[1] \o rb_ret[2] =
            LastN(rb_stream, Min(Len(rb_stream), BufLen(rb)))

\* C22 witness: as_slices on an 8-byte ring that has wrapped, with bytes on
\* both sides of the head.
C22_BothSlices ==
    /\ rb_op = "as_slices"
    /\ BufLen(rb) = 8
    /\ Len(rb_stream) > 8
    /\ Len(rb_ret[1]) > 0
    /\ Len(rb_ret[2]) > 0
    /\ rb_ret[1] # rb_ret[2]

\* C23. match_length(a, b) returns the largest k <= min(|a|, |b|) with
\* a[0..k] = b[0..k] (the k a byte-by-byte loop finds), gives the same result
\* with its arguments exchanged, and reads no byte at or beyond
\* min(|a|, |b|) of either string; the same holds for FastCmp::match_length.
C23_MatchLength ==
    raw_op \in {"match_length", "FastCmp::match_length"} =>
        LET a == raw_arg[1]
            b == raw_arg[2]
            k == raw_ret[1]
            m == Min(Len(a), Len(b))
        IN  /\ k \in 0..m
            /\ SliceTo(a, k) = SliceTo(b, k)
            /\ \A j \in 0..m : SliceTo(a, j) = SliceTo(b, j) => j <= k
            /\ k = m \/ At(a, k) # At(b, k)
            /\ raw_match_length(b, a)[1] = k
            /\ fastcmp_match_length(b, a)[1] = k
            /\ raw_reach <= m

\* C23 witness: two strings of 17 and 16 bytes that agree on the first chunk
\* of 8 bytes and differ inside the second were compared.
C23_DifferInSecondChunk ==
    /\ raw_op = "match_length"
    /\ Len(raw_arg[1]) = 17
    /\ Len(raw_arg[2]) = 16
    /\ raw_ret = <<11>>

\* Bits 8j..8j+7 of a 64-bit value held as 16-bit limbs.
BitsOf(v, j) == (v[(j \div 2) + 1] \div (IF j % 2 = 0 THEN 1 ELSE 256)) % 256

\* C24. write_u64 and read_u64 are little-endian inverses: when
\* i + 8 <= |buf|, write_u64(buf, i, v) makes byte buf[i + j] the bits
\* 8j..8j+7 of v and leaves the bytes outside [i, i + 8) alone, and a read_u64
\* at i that follows returns v; both fail when i + 8 > |buf|.
C24_U64Inverses ==
    [][/\ raw_op' = "write_u64" =>
            LET i == raw_arg'[1]
                v == raw_arg'[2]
            IN  IF i + 8 <= Len(raw_buf)
                THEN /\ raw_ret' # PanicSlice
                     /\ Len(raw_buf') = Len(raw_buf)
                     /\ \A j \in 0..7 : At(raw_buf', i + j) = BitsOf(v, j)
                     /\ \A k \in 0..(Len(raw_buf) - 1) :
                           (k < i \/ k >= i + 8) => At(raw_buf', k) = At(raw_buf, k)
                     /\ read_u64(raw_buf', i) = v
                ELSE raw_ret' = PanicSlice
       /\ raw_op' = "read_u64" =>
            /\ (raw_ret' = PanicSlice) <=> (raw_arg'[1] + 8 > Len(raw_buf))
            /\ (raw_op = "write_u64" /\ raw_ret # PanicSlice
                    /\ raw_arg'[1] = raw_arg[1]) => raw_ret' = raw_arg[2]
      ]_vars

\* C24 witness: a read at index 1 of a 9-byte buffer returned u64::MAX, a
\* value no initial buffer holds.
C24_ReadBackMax ==
    /\ raw_op = "read_u64"
    /\ raw_arg = <<1>>
    /\ Len(raw_buf) = 9
    /\ raw_ret = <<65535, 65535, 65535, 65535>>

\* Config min_match_len: the smallest length for which a Rep is preferred
\* over literals (its typical value).
min_match_len == 3

\* C25. Token decision rule: every Rep emitted has a length of at least
\* min_match_len; every other step emits the Literal of the first byte not
\* yet consumed and consumes that one byte, so a match shorter than
\* min_match_len goes out as literals.
C25_TokenDecision ==
    \A i \in 1..Len(tokens) :
        LET t == tokens[i]
            start == SumTokenLen(SliceTo(tokens, i - 1))
        IN  /\ t.type = "Rep" => t.length >= min_match_len
            /\ t.type = "Literal" => t.byte = At(input, start)

\* The slots the traversal of next_token visits for a lookahead, in order.
RECURSIVE Candidates(_, _, _, _)
Candidates(self, la, last, seen) ==
    LET m == next_match_index(self, last, la)
    IN  IF m = None \/ (\E i \in 1..Len(seen) : seen[i] = m[1])
        THEN seen
        ELSE Candidates(self, la, m, Append(seen, m[1]))

\* The number of bytes, at most k, for which the input continues from
\* position consumed as it did d + 1 bytes earlier.
StreamMatchLen(d, k) ==
    Cardinality({l \in 1..k :
        \A i \in 0..(l - 1) : input[consumed - d + i] = input[consumed + 1 + i]})

\* C26. Best-match selection: a write returns the maximum match length over
\* the candidates the chain traversal reaches for the lookahead's first byte,
\* with the distance of the first candidate of that length in traversal
\* order, the smallest distance among them; it emits a Literal exactly when
\* no candidate matched.
C26_BestMatch ==
    [][(c_status = "running" /\ consumed < Len(input)) =>
          /\ c_status' = "running"
          /\ LET k == c_ret'[1]
                 lookahead0 == SubSeq(input, consumed + 1, consumed + k)
                 cands == Candidates(comp, lookahead0, None, <<>>)
                 t == tokens'[Len(tokens')]
             IN  /\ (t.type = "Literal") <=> (cands = <<>>)
                 /\ t.type = "Rep" =>
                       /\ t.length = StreamMatchLen(t.distance, k)
                       /\ \E i \in 1..Len(cands) :
                             /\ distance(comp, cands[i]) = t.distance
                             /\ \A j \in 1..(i - 1) :
                                   StreamMatchLen(distance(comp, cands[j]), k) < t.length
                       /\ \A i \in 1..Len(cands) :
                             LET d == distance(comp, cands[i])
                             IN  /\ StreamMatchLen(d, k) <= t.length
                                 /\ StreamMatchLen(d, k) = t.length => t.distance <= d
      ]_vars

\* The index next_match_index looks at after the slots in seen.
NextIndex(self, b0, seen) ==
    IF seen = <<>> THEN self.map[b0] ELSE At(self.chain, seen[Len(seen)])

\* C27. Chain safety: in every state the writes reach, for every query byte
\* b0, each slot the chain traversal returns is an index inside the
\* dictionary whose current byte is b0, and the traversal returns no further
\* slot exactly at an index outside the dictionary (the sentinel) or at a
\* slot whose byte is not b0.
C27_ChainSafety ==
    \A b0 \in Bytes :
        LET cands == Candidates(comp, <<b0>>, None, <<>>)
        IN  /\ \A i \in 1..Len(cands) :
                  /\ cands[i] \in 0..(Len(comp.dict) - 1)
                  /\ At(comp.dict, cands[i]) = b0
            /\ \A i \in 0..Len(cands) :
                  LET seen == SliceTo(cands, i)
                      index == NextIndex(comp, b0, seen)
                      last == IF i = 0 THEN None ELSE Some(cands[i])
                  IN  (next_match_index(comp, last, <<b0>>) = None) <=>
                          (index >= Len(comp.dict) \/ At(comp.dict, index) # b0)

\* C27 witness: the ring has wrapped, the traversal for one byte returns a
\* slot, and the entry that follows it is a slot since overwritten with the
\* other byte.
C27_StaleLink ==
    /\ Len(comp.dict) = comp.dict_size
    /\ Len(tokens) > comp.dict_size
    /\ \E b0 \in Bytes :
         LET cands == Candidates(comp, <<b0>>, None, <<>>)
         IN  /\ cands # <<>>
             /\ NextIndex(comp, b0, cands) < Len(comp.dict)
             /\ At(comp.dict, NextIndex(comp, b0, cands)) # b0

\* C28. Chain termination: in every state the writes reach, for every
\* query byte b0, the traversal from map[b0] visits at most dict_size slots,
\* none of them twice, and then finds the sentinel or a slot of another byte;
\* no write stays in the loop of next_token for ever.
C28_ChainTermination ==
    /\ c_status # "hung"
    /\ \A b0 \in Bytes :
         LET cands == Candidates(comp, <<b0>>, None, <<>>)
             last == IF cands = <<>> THEN None ELSE Some(cands[Len(cands)])
         IN  /\ Len(cands) <= comp.dict_size
             /\ next_match_index(comp, last, <<b0>>) = None

\* C29. Overlapping matches are found: when the input not yet consumed
\* continues a periodic repetition of the last d + 1 committed bytes held in
\* the dictionary, a write given k of those bytes emits a Rep of length k,
\* also when k exceeds d + 1, at the smallest such distance.
C29_OverlappingMatch ==
    [][(/\ c_status = "running"
        /\ consumed < Len(input)
        /\ \E d \in 0..(Len(comp.dict) - 1) :
              StreamMatchLen(d, Len(input) - consumed) = Len(input) - consumed) =>
          /\ c_status' = "running"
          /\ LET k == c_ret'[1]
                 t == tokens'[Len(tokens')]
             IN  /\ t.type = "Rep"
                 /\ t.length = k
                 /\ StreamMatchLen(t.distance, k) = k
                 /\ \A d \in 0..(Len(comp.dict) - 1) :
                       StreamMatchLen(d, k) = k => t.distance <= d
      ]_vars

\* C30. Idempotence of flush: a call of flush (the Compressor holds nothing
\* pending between writes) emits no token and changes neither dict, head,
\* map nor chain; it tells the sink to flush and adds nothing to the sink's
\* data, so that two calls in a row leave the sink's data as one call does.
C30_FlushIdempotent ==
    [][c_op' = "flush" =>
          /\ tokens' = tokens
          /\ consumed' = consumed
          /\ comp'.dict = comp.dict
          /\ comp'.head = comp.head
          /\ comp'.map = comp.map
          /\ comp'.chain = comp.chain
          /\ comp'.inner.data = comp.inner.data
          /\ flush(comp').inner.data = comp'.inner.data
          /\ comp'.inner.flushed = comp.inner.flushed + 1
      ]_vars

\* C31. Distance indexing: with len bytes valid, rb[Distance(d)] for d < len
\* is the byte written d + 1 writes ago and rb[i] for i < len is the i-th
\* oldest valid byte; wrap_offset_signed(-k) is (head - k) mod C.
C31_DistanceIndexing ==
    rb_op # "none" =>
        LET n == Len(rb_stream)
            C == BufLen(rb)
        IN  /\ (rb_op = "index_distance" /\ rb_arg[1] < rb.len) =>
                  rb_ret = <<rb_stream[n - rb_arg[1]]>>
            /\ (rb_op = "index_usize" /\ rb_arg[1] < rb.len) =>
                  rb_ret = <<rb_stream[n - rb.len + rb_arg[1] + 1]>>
            /\ \A k \in 1..C :
                  wrap_offset_signed(rb, -k) = (rb.head - k) % C

\* The slot of the last occurrence of byte b among the first m bytes of the
\* input, the sentinel when there is none.
LastSlotOf(b, m) ==
    IF \E p \in 1..m : input[p] = b
    THEN LET last == CHOOSE p \in 1..m :
                         /\ input[p] = b
                         /\ \A q \in (p + 1)..m : input[q] # b
         IN  (last - 1) % comp.dict_size
    ELSE U32_MAX

\* C32. Hash-chain maintenance: each committed byte b stored at slot s sets
\* chain[s] to the former map[b] and map[b] to s, so that map[b] is the slot
\* of the most recently committed b (the sentinel when there is none) and
\* chain[s] the slot of the occurrence of b committed before the byte in s;
\* following chain from map[b] visits occurrences of b most recent first,
\* each at a larger distance than the one before, and then ends.
C32_HashChain ==
    /\ \A b \in Bytes : comp.map[b] = LastSlotOf(b, consumed)
    /\ \A p \in 1..consumed :
          (p + comp.dict_size > consumed) =>
              At(comp.chain, (p - 1) % comp.dict_size) = LastSlotOf(input[p], p - 1)
    /\ \A b \in Bytes :
          LET cands == Candidates(comp, <<b>>, None, <<>>)
              last == IF cands = <<>> THEN None ELSE Some(cands[Len(cands)])
          IN  /\ \A i \in 1..(Len(cands) - 1) :
                    distance(comp, cands[i]) < distance(comp, cands[i + 1])
              /\ next_match_index(comp, last, <<b>>) = None

\* The cells of buf that Dictionary::dictionary returns.
dictionary_cells(self) ==
    LET t == wrap_sub(self, self.head, self.dict_size)
    IN  IF t > self.head
        THEN t..(self.dict_cap - 1) \cup 0..(self.head - 1)
        ELSE t..(self.head - 1)

\* The cells of buf that Dictionary::match_length compares: 8 at a time
\* while 8 bytes remain, then one at a time up to the first difference.
match_length_cells(self, dist) ==
    IF self.la_size = 0 THEN {}
    ELSE LET pos == wrap_sub(self, self.head, dist + 1)
             max_len == self.la_size
             chunked == match_length_chunks(self, pos, 0, max_len)
             len == match_length_bytes(self, pos, chunked, max_len)
             offsets ==
                 IF len = PANIC THEN {}
                 ELSE (IF max_len - chunked >= 8
                       THEN 0..(chunked + 7) ELSE 0..(chunked - 1))
                      \cup chunked..Min(len, max_len - 1)
         IN  {pos + i : i \in offsets} \cup {self.head + i : i \in offsets}

\* The loop of Dictionary::wrapped_copy_self reads only cells stored to
\* before the read.
RECURSIVE copy_reads_written(_, _, _, _)
copy_reads_written(m, from, pos, len) ==
    IF len = 0 \/ m.panic THEN TRUE
    ELSE /\ from \in m.written
         /\ copy_reads_written(wrapped_copy_self(m, from, pos, 1),
                               wrap(m.self, from + 1), wrap(m.self, pos + 1),
                               len - 1)

\* The ring with every cell never stored to holding the other byte: the
\* p-th byte written went to cell (p - 1) mod C.
scrubbed ==
    LET stored == {(p - 1) % BufLen(rb) : p \in 1..Len(rb_stream)}
    IN  [rb EXCEPT !.buf = [i \in DOMAIN rb.buf |->
                               IF i \in stored THEN rb.buf[i] ELSE 1 - rb.buf[i]]]

C35_AtMostTwoCopies ==
    [][rb_op' = "write" => write_passes(rb, rb_arg') <= 2]_vars

\* C36. Buffer::get for RingBuf returns Some(byte), the i-th byte ever
\* written, for every virtual index i in the valid window [n - len, n) and
\* None for every index outside it, also after the buffer has wrapped
\* (n > C).
C36_BufferGet ==
    rb_op = "buffer_get" =>
        LET n == Len(rb_stream)
            i == rb_arg[1]
        IN  IF n - rb.len <= i /\ i < n
            THEN rb_ret = Some(rb_stream[i + 1])
            ELSE rb_ret = None

\* C37. Every Rep token the Compressor emits has length >= 1 and a distance
\* strictly smaller than the number of bytes held in the dictionary when it
\* is chosen, equal to (head - slot - 1) mod dict_size for a slot holding
\* the first byte of the lookahead; and after n bytes have been committed
\* the ring holds the last min(n, dict_size) bytes, the byte of stream
\* position p in slot p mod dict_size, with head = n mod dict_size.
C37_RepTokens ==
    [][(c_op' = "write" /\ Len(tokens') = Len(tokens) + 1) =>
          LET t == tokens'[Len(tokens')]
              ds == comp.dict_size
              n == consumed'
          IN  /\ t.type = "Rep" =>
                    /\ t.length >= 1
                    /\ t.distance < Len(comp.dict)
                    /\ \E slot \in 0..(Len(comp.dict) - 1) :
                          /\ At(comp.dict, slot) = input[consumed + 1]
                          /\ t.distance = (comp.head - slot - 1) % ds
              /\ Len(comp'.dict) = Min(n, ds)
              /\ comp'.head = n % ds
              /\ \A p \in (n - Min(n, ds) + 1)..n :
                    At(comp'.dict, (p - 1) % ds) = input[p]]_vars

\* C37 witness: a Rep token with a distance of at least 1 was emitted after
\* the ring had wrapped.
C37_RepAfterWrap ==
    /\ c_status = "running"
    /\ tokens # <<>>
    /\ tokens[Len(tokens)].type = "Rep"
    /\ tokens[Len(tokens)].distance >= 1
    /\ consumed - tokens[Len(tokens)].length > comp.dict_size

\* C38. Tokens are produced in left-to-right order of the input: when a
\* token is chosen, the tokens before it cover exactly the input bytes
\* before it and all those bytes have been inserted into the dictionary and
\* the hash chain; the new token is appended and covers the bytes that come
\* next; and every byte a Rep token copies lies before the byte it is copied
\* to, never at or after it.
C38_LeftToRight ==
    [][(c_op' = "write" /\ Len(tokens') = Len(tokens) + 1) =>
          LET t == tokens'[Len(tokens')]
              ds == comp.dict_size
          IN  /\ SubSeq(tokens', 1, Len(tokens)) = tokens
              /\ SumTokenLen(tokens) = consumed
              /\ consumed' = consumed + TokenLen(t)
              /\ Len(comp.dict) = Min(consumed, ds)
              /\ \A p \in 1..consumed :
                    (p + ds > consumed) => At(comp.dict, (p - 1) % ds) = input[p]
              /\ \A b \in Bytes : comp.map[b] = LastSlotOf(b, consumed)
              /\ t.type = "Literal" => t.byte = input[consumed + 1]
              /\ t.type = "Rep" =>
                    \A i \in 1..t.length :
                        /\ consumed + i - (t.distance + 1) >= 1
                        /\ consumed + i - (t.distance + 1) < consumed + i]_vars

\* C38 witness: a Rep token was emitted that copies bytes of its own match
\* (it is longer than its distance + 1) and input remains after it.
C38_CopiesOwnBytes ==
    /\ c_status = "running"
    /\ tokens # <<>>
    /\ tokens[Len(tokens)].type = "Rep"
    /\ tokens[Len(tokens)].length > tokens[Len(tokens)].distance + 1
    /\ consumed < Len(input)

\* C39. Step gating: a worker that enters a span returns from on_enter only
\* by taking one signal from the channel; every signal sent is either still
\* queued or has released exactly one span entry, so no more entries have
\* been released than signals sent, and a signal sent while no worker waits
\* stays queued for a later entry.
C39_StepGating ==
    /\ [](/\ sl_sent = sl_queue + sl_released
          /\ sl_released <= sl_sent)
    /\ [][/\ \A w \in (1..NumWorkers) :
               (sl_pc[w] # "run" /\ sl_pc'[w] = "run") =>
                   /\ sl_pc[w] = "recv"
                   /\ sl_queue >= 1
                   /\ sl_queue' = sl_queue - 1
                   /\ sl_released' = sl_released + 1
          /\ sl_released' # sl_released =>
               \E w \in (1..NumWorkers) : sl_pc[w] = "recv" /\ sl_pc'[w] = "run"
          /\ (sl_sent' = sl_sent + 1 /\ \A w \in (1..NumWorkers) : sl_pc[w] # "recv") =>
               sl_queue' = sl_queue + 1]_vars

\* C39 witness: two span entries have been released, and a signal sent since
\* is queued while no worker is inside on_enter.
C39_QueuedForLater ==
    /\ sl_released = 2
    /\ sl_queue = 1
    /\ sl_sent = 3
    /\ \A w \in (1..NumWorkers) : sl_pc[w] = "run"

\* C40. set_step and free_step never wait for a step signal: no thread waits
\* for the STEP lock while its holder waits in step() on an empty channel.
C40_NoWaitBehindStep ==
    ~(\E t, h \in (1..NumThreads) :
        /\ step_pc[t] \in {"set_lock", "free_lock"}
        /\ step_lock = h
        /\ step_pc[h] = "step_recv"
        /\ step_queue = 0)

====
